---- MODULE Spec2Model ----
(***************************************************************************)
(* The navigation / caching / async-coordination controller of pixi-browse *)
(* (src/pixi_browse/tui.py, class CondaMetadataTui) as a state machine.    *)
(*                                                                         *)
(* The controller runs on one cooperative event loop.  A synchronous       *)
(* handler is one step.  A coroutine is cut at its suspension points (the  *)
(* gateway calls and the file transfer): every piece between two awaits is *)
(* one step, and what the coroutine holds in local variables across the    *)
(* await is kept in its task record.                                       *)
(***************************************************************************)
EXTENDS Integers, Sequences, FiniteSets, Bags, TLC

(***************************************************************************)
(* Bounds of the model.                                                    *)
(***************************************************************************)
\* tasks started by run_worker the model lets be alive at once, all groups together
MaxWorkers == 2
\* viewport widths the terminal is resized between: 1..MaxWidth
MaxWidth == 2
\* _refresh_after_resize calls that may be queued at once
MaxCallbacks == 1
\* rows of the sidebar list the highlight is moved between
MaxRows == 3
\* characters the filter query holds at most
MaxQuery == 2
\* records of the list _build_version_entries is handed at most
MaxRecords == 3
\* characters of a candidate fuzzy_score is handed at most
MaxCandidate == 3
\* --platform options on the command line at most
MaxPlatformOptions == 2

(***************************************************************************)
(* The world outside the controller: the gateway's catalog, the platform   *)
(* of the machine, the names a user can type.                              *)
(***************************************************************************)
NONE == "None"
NoKey == <<>>

Channels == {"conda-forge", "bioconda"}
AllPlatforms == {"linux-64", "osx-64", "noarch"}
CurrentPlatform == "linux-64"

\* what the gateway serves: one record per artifact
Rec(ch, n, v, b, bn, sd, fn) ==
  [channel |-> ch, name |-> n, version |-> v, build |-> b,
   build_number |-> bn, subdir |-> sd, file_name |-> fn]

Catalog ==
  { Rec("conda-forge", "a", 2, "h0", 0, "linux-64", "a-2.conda"),
    Rec("conda-forge", "a", 1, "h0", 0, "noarch", "a-1.conda"),
    Rec("conda-forge", "b", 1, "h0", 0, "noarch", "b-1.conda"),
    Rec("conda-forge", "b", 1, "h0", 0, "linux-64", "b-1.conda"),
    Rec("bioconda", "b", 3, "h0", 0, "osx-64", "b-3.conda"),
    Rec("bioconda", "a", 1, "h0", 0, "noarch", "a-1.conda") }

PackageNames == {r.name : r \in Catalog}
\* the names records are asked for: a package, or the placeholder of
\* on_option_list_option_selected when no package is selected
QueriedNames == PackageNames \cup {"<unknown>"}
FileNames == {r.file_name : r \in Catalog}

\* rank of a string in the ascending order Python's sort gives these strings
StrOrder ==
  << "a", "a-1.conda", "a-2.conda", "ab", "b", "b-1.conda", "b-3.conda", "ba",
     "h0", "linux-64", "noarch", "osx-64", "win-64" >>
StrRank(s) == CHOOSE i \in 1..Len(StrOrder) : StrOrder[i] = s

\* the platforms compared on the name alone (a faulty variant)
PlatformLessByName(p, q) == StrRank(p) < StrRank(q)

\* platform_sort_key: (name == "noarch", name), ascending
PlatformLess(p, q) ==
  \/ p # "noarch" /\ q = "noarch"
  \/ (p = "noarch") = (q = "noarch") /\ StrRank(p) < StrRank(q)

\* sorted(S, key=platform_sort_key) as a sequence
RECURSIVE SortedPlatforms(_)
SortedPlatforms(S) ==
  IF S = {} THEN <<>>
  ELSE LET m == CHOOSE p \in S : \A q \in S \ {p} : PlatformLess(p, q)
       IN <<m>> \o SortedPlatforms(S \ {m})

\* sorted(names) as a sequence
RECURSIVE SortedNames(_)
SortedNames(S) ==
  IF S = {} THEN <<>>
  ELSE LET m == CHOOSE p \in S : \A q \in S \ {p} : StrRank(p) < StrRank(q)
       IN <<m>> \o SortedNames(S \ {m})

Range(s) == {s[i] : i \in 1..Len(s)}

(***************************************************************************)
(* Fuzzy matching (src/pixi_browse/search.py).  A string is the sequence   *)
(* of its characters here.                                                 *)
(***************************************************************************)
\* the characters of a package name
Spelling(name) ==
  CASE name \in {"a", "b"} -> <<name>>
    [] name = "ab" -> <<"a", "b">>
    [] name = "ba" -> <<"b", "a">>
    [] OTHER -> <<>>

\* str.casefold on the characters that are typed
Casefold(c) == IF c = "B" THEN "b" ELSE c
CasefoldAll(q) == [i \in 1..Len(q) |-> Casefold(q[i])]

\* str.lstrip
RECURSIVE StripLeading(_)
StripLeading(q) ==
  IF q = <<>> THEN q
  ELSE IF Head(q) = " " THEN StripLeading(Tail(q))
  ELSE q

\* str.strip
RECURSIVE Strip(_)
Strip(q) ==
  IF q = <<>> THEN q
  ELSE IF Head(q) = " " THEN Strip(Tail(q))
  ELSE IF q[Len(q)] = " " THEN Strip(SubSeq(q, 1, Len(q) - 1))
  ELSE q

\* candidate.find(char, from): 0 is Python's -1, positions count from 1
Find(candidate, char, from) ==
  LET at == {i \in from..Len(candidate) : candidate[i] = char}
  IN IF at = {} THEN 0 ELSE CHOOSE i \in at : \A j \in at : i <= j

\* the loop of fuzzy_score over the characters of the query, from the i-th on;
\* {} is None
RECURSIVE FuzzyWalk(_, _, _, _, _, _, _)
FuzzyWalk(query, candidate, i, cursor, gap_penalty, run_length, longest_run) ==
  IF i > Len(query)
  THEN {[gap_penalty |-> gap_penalty, longest_run |-> longest_run]}
  ELSE LET index == Find(candidate, query[i], cursor + 1)
           gap == IF cursor # 0 THEN gap_penalty + (index - cursor - 1) ELSE gap_penalty
           run == IF index = cursor + 1 THEN run_length + 1 ELSE 1
           longest == IF run > longest_run THEN run ELSE longest_run
       IN IF index = 0 THEN {}
          ELSE FuzzyWalk(query, candidate, i + 1, index, gap, run, longest)

\* fuzzy_score with a run weight of 10 (a faulty variant)
fuzzy_score_light_run(query, candidate) ==
  LET q == Strip(CasefoldAll(query))
      c == CasefoldAll(candidate)
      prefix_bonus == IF Len(q) <= Len(c) /\ SubSeq(c, 1, Len(q)) = q THEN 120 ELSE 0
      length_penalty == Len(c) - Len(q)
  IN IF q = <<>> THEN {0}
     ELSE {prefix_bonus + (w.longest_run * 10) - (w.gap_penalty * 2) - length_penalty :
             w \in FuzzyWalk(q, c, 1, 0, 0, 0, 0)}

\* fuzzy_score: {} is None, {n} the score n
fuzzy_score(query, candidate) ==
  LET q == Strip(CasefoldAll(query))
      c == CasefoldAll(candidate)
      prefix_bonus == IF Len(q) <= Len(c) /\ SubSeq(c, 1, Len(q)) = q THEN 120 ELSE 0
      length_penalty == Len(c) - Len(q)
  IN IF q = <<>> THEN {0}
     ELSE {prefix_bonus + (w.longest_run * 20) - (w.gap_penalty * 2) - length_penalty :
             w \in FuzzyWalk(q, c, 1, 0, 0, 0, 0)}

(***************************************************************************)
(* The gateway collaborator (src/pixi_browse/repodata.py).                 *)
(***************************************************************************)
\* discover_available_platforms: the platforms whose probe returns names
GwPlatforms(ch) == {r.subdir : r \in {x \in Catalog : x.channel = ch}}

\* fetch_package_names: the normalized names over the selected platforms
GwNames(ch, pl) ==
  SortedNames({r.name : r \in {x \in Catalog : x.channel = ch /\ x.subdir \in pl}})

\* query_package_records: the records of one package over the platforms
GwRecords(ch, pl, pkg) ==
  {r \in Catalog : r.channel = ch /\ r.subdir \in pl /\ r.name = pkg}

\* the list the gateway hands the records over as: some order of them
RECURSIVE Listed(_)
Listed(S) ==
  IF S = {} THEN <<>>
  ELSE LET r == CHOOSE x \in S : TRUE IN <<r>> \o Listed(S \ {r})


(***************************************************************************)
(* The controller's state: the fields of CondaMetadataTui, the widgets it  *)
(* writes, the tasks it has started, and the download directory.           *)
(*                                                                         *)
(*  - an Optional field is NONE (names), NoKey (preview keys), 0 (list     *)
(*    indexes, which count from 1 here and from 0 in the code) or a set of *)
(*    at most one element (draft, snapshots);                              *)
(*  - a cache entry keeps the provenance of what it holds: the channel and *)
(*    platform list its records were queried with, the width its text was  *)
(*    rendered at.                                                         *)
(***************************************************************************)
VARIABLES
  mode,                          \* _mode
  channel_name,                  \* _channel_name
  available_platform_names,      \* _available_platform_names (sorted list, kept as its set)
  selected_platform_names,       \* _selected_platform_names: the committed selection
  draft_selected_platform_names, \* _draft_selected_platform_names: {} is None, {d} is the draft d
  platforms,                     \* _platforms: what record queries are issued with
  all_package_names,             \* _all_package_names
  visible_package_names,         \* _visible_package_names
  package_records_cache,         \* _package_records_cache: name -> {} or {tag}
  version_details_cache,         \* _version_details_cache: set of [key, text]
  previewed_package,             \* _previewed_package
  pending_preview_package,       \* _pending_preview_package
  previewed_version_key,         \* _previewed_version_key
  pending_preview_version_key,   \* _pending_preview_version_key
  selected_package,              \* _selected_package
  current_versions,              \* _current_versions
  version_subdirs,               \* _version_subdirs
  collapsed_version_subdirs,     \* _collapsed_version_subdirs
  version_rows,                  \* _version_rows
  highlighted,                   \* #sidebar-list .highlighted
  list_disabled,                 \* #sidebar-list .disabled
  last_package_highlight,        \* _last_package_highlight
  download_in_progress,          \* _download_in_progress: the in-flight guard
  filter_mode,                   \* _filter_mode
  search_query,                  \* _search_query, as the sequence of its characters
  channel_edit_mode,             \* _channel_edit_mode
  channel_draft,                 \* _channel_draft: typed characters and pasted names, in order
  exited,                        \* exit() was called: the application is over
  pane,                          \* #main-placeholder: what the detail pane shows
  status,                        \* #status
  notice,                        \* the last notify() call
  width,                         \* the viewport width _main_panel_content_width reads
  resize_callbacks,              \* _refresh_after_resize calls queued by call_after_refresh
  workers,                       \* tasks started by run_worker, not yet finished
  handler,                       \* the message handler suspended in an await: {} or {task}
  crashed,                       \* an exception left a message handler: the UI loop is gone
  fs,                            \* the current directory: path -> content
  frame                          \* the call of a function taken on its own: its arguments, its return

fields ==
  << mode, channel_name, available_platform_names, selected_platform_names,
     draft_selected_platform_names, platforms, all_package_names,
     visible_package_names, package_records_cache, version_details_cache,
     previewed_package, pending_preview_package, previewed_version_key,
     pending_preview_version_key, selected_package, current_versions,
     version_subdirs, collapsed_version_subdirs, version_rows, highlighted,
     list_disabled, last_package_highlight, download_in_progress, filter_mode,
     search_query, channel_edit_mode, channel_draft, exited, pane, status, notice, width, resize_callbacks, workers,
     handler, crashed, fs >>

vars == << fields, frame >>

\* the controller as one record: a handler is a function from record to record
St ==
  [ mode |-> mode,
    channel_name |-> channel_name,
    available_platform_names |-> available_platform_names,
    selected_platform_names |-> selected_platform_names,
    draft_selected_platform_names |-> draft_selected_platform_names,
    platforms |-> platforms,
    all_package_names |-> all_package_names,
    visible_package_names |-> visible_package_names,
    package_records_cache |-> package_records_cache,
    version_details_cache |-> version_details_cache,
    previewed_package |-> previewed_package,
    pending_preview_package |-> pending_preview_package,
    previewed_version_key |-> previewed_version_key,
    pending_preview_version_key |-> pending_preview_version_key,
    selected_package |-> selected_package,
    current_versions |-> current_versions,
    version_subdirs |-> version_subdirs,
    collapsed_version_subdirs |-> collapsed_version_subdirs,
    version_rows |-> version_rows,
    highlighted |-> highlighted,
    list_disabled |-> list_disabled,
    last_package_highlight |-> last_package_highlight,
    download_in_progress |-> download_in_progress,
    filter_mode |-> filter_mode,
    search_query |-> search_query,
    channel_edit_mode |-> channel_edit_mode,
    channel_draft |-> channel_draft,
    exited |-> exited,
    pane |-> pane,
    status |-> status,
    notice |-> notice,
    width |-> width,
    resize_callbacks |-> resize_callbacks,
    workers |-> workers,
    handler |-> handler,
    crashed |-> crashed,
    fs |-> fs,
    await |-> {},          \* the gateway call the coroutine suspended on, if it did
    ret |-> TRUE,          \* what the coroutine returned, if it returned a bool
    overflow |-> FALSE ]   \* the handler needed more tasks than the model holds

\* the step that runs a handler: the state becomes the record it returns
Becomes(t) ==
  /\ ~t.overflow
  /\ mode' = t.mode
  /\ channel_name' = t.channel_name
  /\ available_platform_names' = t.available_platform_names
  /\ selected_platform_names' = t.selected_platform_names
  /\ draft_selected_platform_names' = t.draft_selected_platform_names
  /\ platforms' = t.platforms
  /\ all_package_names' = t.all_package_names
  /\ visible_package_names' = t.visible_package_names
  /\ package_records_cache' = t.package_records_cache
  /\ version_details_cache' = t.version_details_cache
  /\ previewed_package' = t.previewed_package
  /\ pending_preview_package' = t.pending_preview_package
  /\ previewed_version_key' = t.previewed_version_key
  /\ pending_preview_version_key' = t.pending_preview_version_key
  /\ selected_package' = t.selected_package
  /\ current_versions' = t.current_versions
  /\ version_subdirs' = t.version_subdirs
  /\ collapsed_version_subdirs' = t.collapsed_version_subdirs
  /\ version_rows' = t.version_rows
  /\ highlighted' = t.highlighted
  /\ list_disabled' = t.list_disabled
  /\ last_package_highlight' = t.last_package_highlight
  /\ download_in_progress' = t.download_in_progress
  /\ filter_mode' = t.filter_mode
  /\ search_query' = t.search_query
  /\ channel_edit_mode' = t.channel_edit_mode
  /\ channel_draft' = t.channel_draft
  /\ exited' = t.exited
  /\ pane' = t.pane
  /\ status' = t.status
  /\ notice' = t.notice
  /\ width' = t.width
  /\ resize_callbacks' = t.resize_callbacks
  /\ workers' = t.workers
  /\ handler' = t.handler
  /\ crashed' = t.crashed
  /\ fs' = t.fs
  /\ frame' = frame

(***************************************************************************)
(* Texts.  What a widget shows is kept as what was rendered, from what:    *)
(* kind, the package, the preview key, the width, the records' provenance. *)
(***************************************************************************)
Text(kind, pkg, key, w, src) ==
  [kind |-> kind, pkg |-> pkg, key |-> key, w |-> w, src |-> src]
Msg(kind) == Text(kind, NONE, NoKey, 0, {})

\* the provenance of a record list: the arguments of the query that returned it
Tag(ch, pl) == [ch |-> ch, pl |-> pl]


(***************************************************************************)
(* Workers.  run_worker(coro, group=g, exclusive=True) starts a task and   *)
(* asks the framework to cancel the earlier tasks of the group.  The code  *)
(* does not rely on that cancellation (it re-checks mode and pending key   *)
(* when a fetch returns), so a cancelled task is kept here: it may be      *)
(* dropped at its await, or its await may return first.                    *)
(***************************************************************************)
\*  pc: "new" (not yet run), "query" / "discover" / "names" (suspended in that
\*      gateway call, issued with the arguments in call), "transfer" (suspended
\*      in asyncio.to_thread; xfer is how far the thread is)
Worker(group, pkg, entry, ch, snap) ==
  [ group |-> group, pc |-> "new", pkg |-> pkg, entry |-> entry,
    ch |-> ch, snap |-> snap, call |-> {}, xfer |-> "none", cancelled |-> FALSE ]

\* the tasks of the group are asked to stop (tasks alike are counted together)
CancelGroup(tasks, group) ==
  LET asked(w) == IF w.group = group THEN [w EXCEPT !.cancelled = TRUE] ELSE w
      live(x) == [x EXCEPT !.cancelled = FALSE]
  IN [x \in {asked(w) : w \in BagToSet(tasks)} |->
        CopiesIn(x, tasks)
        + (IF x.group = group /\ x.cancelled THEN CopiesIn(live(x), tasks) ELSE 0)]

RunWorker(s, group, pkg, entry, ch, snap) ==
  IF BagCardinality(s.workers) >= MaxWorkers THEN [s EXCEPT !.overflow = TRUE]
  ELSE [s EXCEPT !.workers = CancelGroup(@, group)
                               (+) SetToBag({Worker(group, pkg, entry, ch, snap)})]

\* the task is over: it returned, raised, or was cancelled
Finish(s, w) == [s EXCEPT !.workers = @ (-) SetToBag({w})]

(***************************************************************************)
(* Version entries and rows.                                               *)
(***************************************************************************)
VersionEntry(r) ==
  [ version |-> r.version, build |-> r.build, build_number |-> r.build_number,
    subdir |-> r.subdir, file_name |-> r.file_name ]

\* entries compared on the key of the dict instead
EntryLessByEntryKey(a, b) ==
  LET ka == <<a.version, StrRank(a.build), a.build_number, StrRank(a.subdir),
              StrRank(a.file_name)>>
      kb == <<b.version, StrRank(b.build), b.build_number, StrRank(b.subdir),
              StrRank(b.file_name)>>
  IN \E i \in 1..5 : ka[i] < kb[i] /\ \A j \in 1..(i - 1) : ka[j] = kb[j]

\* the sort key of _build_version_entries, compared as Python compares tuples
EntryLess(a, b) ==
  LET ka == <<a.version, StrRank(a.build), StrRank(a.subdir), a.build_number,
              StrRank(a.file_name)>>
      kb == <<b.version, StrRank(b.build), StrRank(b.subdir), b.build_number,
              StrRank(b.file_name)>>
  IN \E i \in 1..5 : ka[i] < kb[i] /\ \A j \in 1..(i - 1) : ka[j] = kb[j]

\* the key without the file name
EntryKeyOfBuild(r) == <<r.version, r.build, r.build_number, r.subdir>>

\* the key of versions_by_key
EntryKey(r) == <<r.version, r.build, r.build_number, r.subdir, r.file_name>>

\* versions_by_key[key] = value, the dict kept as its items in insertion order:
\* a key already there keeps its place and takes the new value
DictSet(items, key, value) ==
  IF \E i \in 1..Len(items) : items[i].key = key
  THEN [i \in 1..Len(items) |->
          IF items[i].key = key THEN [key |-> key, value |-> value] ELSE items[i]]
  ELSE Append(items, [key |-> key, value |-> value])

\* the loop of _build_version_entries over the records
RECURSIVE VersionsByKey(_, _)
VersionsByKey(records, items) ==
  IF records = <<>> THEN items
  ELSE VersionsByKey(Tail(records),
                     DictSet(items, EntryKey(Head(records)), VersionEntry(Head(records))))

\* one step of sorted(..., reverse=True): e goes behind the entries that are
\* not below it, so entries of equal key keep the order they came in
InsertDescending(sorted, e) ==
  LET n == Cardinality({i \in 1..Len(sorted) : ~EntryLess(sorted[i], e)})
  IN SubSeq(sorted, 1, n) \o <<e>> \o SubSeq(sorted, n + 1, Len(sorted))

RECURSIVE SortedDescending(_)
SortedDescending(values) ==
  IF values = <<>> THEN <<>>
  ELSE InsertDescending(SortedDescending(SubSeq(values, 1, Len(values) - 1)),
                        values[Len(values)])

\* _build_version_entries: the values of the dict, sorted descending
BuildVersionEntries(records) ==
  LET items == VersionsByKey(records, <<>>)
  IN SortedDescending([i \in 1..Len(items) |-> items[i].value])

\* _version_preview_key
VersionPreviewKey(pkg, e) ==
  <<pkg, e.version, e.build, e.build_number, e.subdir, e.file_name>>

VersionRow(kind, subdir, entry) == [kind |-> kind, subdir |-> subdir, entry |-> entry]

\* _versions_by_subdir[subdir]: the entries of one subdir, in list order
VersionsBySubdir(s, subdir) ==
  SelectSeq(s.current_versions, LAMBDA e : e.subdir = subdir)

RECURSIVE SectionRows(_, _)
SectionRows(s, subdirs) ==
  IF subdirs = <<>> THEN <<>>
  ELSE LET sd == Head(subdirs)
           es == VersionsBySubdir(s, sd)
           rows == IF sd \in s.collapsed_version_subdirs THEN <<>>
                   ELSE [i \in 1..Len(es) |-> VersionRow("entry", sd, {es[i]})]
       IN <<VersionRow("section", sd, {})>> \o rows \o SectionRows(s, Tail(subdirs))

Min(a, b) == IF a <= b THEN a ELSE b

\* _render_version_options
RenderVersionOptions(s, preserve_position) ==
  IF s.current_versions = <<>>
  THEN [s EXCEPT !.version_rows = <<VersionRow("back", NONE, {}),
                                    VersionRow("empty", NONE, {})>>,
                 !.highlighted = 1]
  ELSE LET rows == <<VersionRow("back", NONE, {})>> \o SectionRows(s, s.version_subdirs)
       IN [s EXCEPT !.version_rows = rows,
                    !.highlighted = IF preserve_position /\ s.highlighted # 0
                                    THEN Min(s.highlighted, Len(rows))
                                    ELSE 1]

\* _render_package_options
RenderPackageOptions(s, preserve_position) ==
  IF s.visible_package_names # <<>>
  THEN [s EXCEPT !.highlighted = IF preserve_position /\ s.highlighted # 0
                                 THEN Min(s.highlighted, Len(s.visible_package_names))
                                 ELSE 1]
  ELSE [s EXCEPT !.highlighted = 0]

(***************************************************************************)
(* The package-preview stream.                                             *)
(***************************************************************************)
\* _update_main_panel_for_package: records is the cache entry, {tag}
UpdateMainPanelForPackage(s, pkg, records) ==
  [s EXCEPT !.pane = Text("package", pkg, NoKey, 0, records),
            !.previewed_package = pkg]

\* _request_package_preview
RequestPackagePreview(s, pkg) ==
  LET s1 == [s EXCEPT !.pending_preview_package = pkg]
  IN IF s1.previewed_package = pkg THEN s1
     ELSE IF s1.package_records_cache[pkg] # {}
     THEN UpdateMainPanelForPackage(s1, pkg, s1.package_records_cache[pkg])
     ELSE RunWorker([s1 EXCEPT !.pane = Text("loading-package", pkg, NoKey, 0, {})],
                    "package-preview", pkg, {}, NONE, {})

\* _load_and_render_package_preview applying whatever returns while the
\* packages list is shown (a faulty variant: no test of the pending key)
ApplyPackagePreviewUntested(s, pkg) ==
  IF s.mode # "packages" THEN s
  ELSE UpdateMainPanelForPackage(s, pkg, s.package_records_cache[pkg])

\* _load_and_render_package_preview, from the return of _get_package_records on
ApplyPackagePreview(s, pkg) ==
  IF s.mode # "packages" THEN s
  ELSE IF s.pending_preview_package # pkg THEN s
  ELSE UpdateMainPanelForPackage(s, pkg, s.package_records_cache[pkg])


(***************************************************************************)
(* The version-detail stream.                                              *)
(***************************************************************************)
\* dict.get on the detail cache: {} or {text}
DetailGet(cache, key) == {e.text : e \in {x \in cache : x.key = key}}
DetailPut(cache, key, text) ==
  {x \in cache : x.key # key} \cup {[key |-> key, text |-> text]}

\* _request_selected_version_preview
RequestSelectedVersionPreview(s, pkg, entry) ==
  LET preview_key == VersionPreviewKey(pkg, entry)
      s1 == [s EXCEPT !.pending_preview_version_key = preview_key]
      cached == DetailGet(s1.version_details_cache, preview_key)
  IN IF s1.previewed_version_key = preview_key THEN s1
     ELSE IF cached # {}
     THEN [s1 EXCEPT !.pane = CHOOSE x \in cached : TRUE,
                     !.previewed_version_key = preview_key]
     ELSE RunWorker([s1 EXCEPT !.pane = Text("loading-version", pkg, preview_key, 0, {})],
                    "version-preview", pkg, {entry}, NONE, {})

\* _get_record_for_version_entry over a record list with provenance tag:
\* whether a record with the entry's five identity fields is in it
HasRecordFor(tag, pkg, entry) ==
  \E r \in GwRecords(tag.ch, tag.pl, pkg) : VersionEntry(r) = entry

\* _load_and_render_selected_version_preview that caches what it rendered
\* before its two tests (a faulty variant)
ApplyVersionPreviewCachingFirst(s, pkg, entry) ==
  LET preview_key == VersionPreviewKey(pkg, entry)
      tag == CHOOSE x \in s.package_records_cache[pkg] : TRUE
      rendered == IF HasRecordFor(tag, pkg, entry)
                  THEN Text("details", pkg, preview_key, s.width, {tag})
                  ELSE Msg("no-matching-record")
      s1 == [s EXCEPT !.version_details_cache = DetailPut(@, preview_key, rendered)]
  IN IF s.mode # "versions" THEN s1
     ELSE IF s.pending_preview_version_key # preview_key THEN s1
     ELSE [s1 EXCEPT !.pane = rendered,
                     !.previewed_version_key = preview_key]

\* _load_and_render_selected_version_preview, from the return of
\* _get_record_for_version_entry on (the records are the cache entry)
ApplyVersionPreview(s, pkg, entry) ==
  LET preview_key == VersionPreviewKey(pkg, entry)
      tag == CHOOSE x \in s.package_records_cache[pkg] : TRUE
      rendered == IF HasRecordFor(tag, pkg, entry)
                  THEN Text("details", pkg, preview_key, s.width, {tag})
                  ELSE Msg("no-matching-record")
  IN IF s.mode # "versions" THEN s
     ELSE IF s.pending_preview_version_key # preview_key THEN s
     ELSE [s EXCEPT !.version_details_cache = DetailPut(@, preview_key, rendered),
                    !.pane = rendered,
                    !.previewed_version_key = preview_key]

(***************************************************************************)
(* Navigation between the modes.                                           *)
(***************************************************************************)
\* the scored names sorted on the name alone
SortedByNameAlone(scored) == SortedNames({x.name : x \in scored})

\* the names with a score, sorted by (-score, name)
RECURSIVE SortedByScore(_)
SortedByScore(scored) ==
  IF scored = {} THEN <<>>
  ELSE LET m == CHOOSE x \in scored : \A y \in scored \ {x} :
                  \/ x.score > y.score
                  \/ x.score = y.score /\ StrRank(x.name) < StrRank(y.name)
       IN <<m.name>> \o SortedByScore(scored \ {m})

\* the list _filter_packages leaves in _visible_package_names
Matching(s) ==
  IF ~s.filter_mode \/ s.search_query = <<>> THEN s.all_package_names
  ELSE SortedByScore(UNION {{[name |-> n, score |-> sc] :
                               sc \in fuzzy_score(s.search_query, Spelling(n))} :
                             n \in Range(s.all_package_names)})

\* _filter_packages
FilterPackages(s) ==
  LET s1 == [s EXCEPT !.visible_package_names = Matching(s)]
      s2 == RenderPackageOptions(s1, FALSE)
      s3 == [s2 EXCEPT !.status = Msg("packages-in-selection"),
                       !.previewed_package = NONE]
  IN IF s3.visible_package_names # <<>>
     THEN RequestPackagePreview(s3, s3.visible_package_names[1])
     ELSE [s3 EXCEPT !.pending_preview_package = NONE,
                     !.pane = Msg("no-packages-match")]

\* _clear_record_caches
ClearRecordCaches(s) ==
  [s EXCEPT !.package_records_cache = [n \in QueriedNames |-> {}],
            !.version_details_cache = {}]

\* _reset_preview_state
ResetPreviewState(s) ==
  [s EXCEPT !.previewed_package = NONE,
            !.pending_preview_package = NONE,
            !.previewed_version_key = NoKey,
            !.pending_preview_version_key = NoKey]

\* _clear_version_state without the clear of the collapsed sections (a faulty
\* variant)
ClearVersionStateButCollapsed(s) ==
  [s EXCEPT !.current_versions = <<>>,
            !.version_subdirs = <<>>,
            !.version_rows = <<>>,
            !.selected_package = NONE]

\* _clear_version_state
ClearVersionState(s) ==
  [s EXCEPT !.current_versions = <<>>,
            !.version_subdirs = <<>>,
            !.collapsed_version_subdirs = {},
            !.version_rows = <<>>,
            !.selected_package = NONE]

\* _clear_channel_loaded_state
ClearChannelLoadedState(s) ==
  LET s1 == ResetPreviewState(ClearVersionState(
              [s EXCEPT !.mode = "packages", !.draft_selected_platform_names = {}]))
  IN ClearRecordCaches([s1 EXCEPT !.platforms = {},
                                  !.available_platform_names = {},
                                  !.selected_platform_names = {},
                                  !.all_package_names = <<>>,
                                  !.visible_package_names = <<>>])

\* _back_to_packages without the restore of the saved highlight (a faulty
\* variant)
BackToPackagesAtTop(s) ==
  FilterPackages([ClearVersionState(
                    [s EXCEPT !.mode = "packages",
                              !.draft_selected_platform_names = {}])
                  EXCEPT !.previewed_version_key = NoKey,
                         !.pending_preview_version_key = NoKey])

\* _back_to_packages
BackToPackages(s) ==
  LET s1 == ClearVersionState(
              [s EXCEPT !.mode = "packages", !.draft_selected_platform_names = {}])
      s2 == FilterPackages([s1 EXCEPT !.previewed_version_key = NoKey,
                                      !.pending_preview_version_key = NoKey])
  IN IF s2.visible_package_names # <<>> /\ s2.last_package_highlight # 0
     THEN LET h == Min(s2.last_package_highlight, Len(s2.visible_package_names))
          IN RequestPackagePreview([s2 EXCEPT !.highlighted = h],
                                   s2.visible_package_names[h])
     ELSE s2

\* _open_versions: the entries of the records, and their subdirs in the order
\* of the sections
GroupVersions(s, records) ==
  LET entries == BuildVersionEntries(records)
  IN [s EXCEPT !.current_versions = entries,
               !.version_subdirs = SortedPlatforms({e.subdir : e \in Range(entries)})]

\* _open_versions, from the return of _get_package_records on
OpenVersionsRest(s, pkg) ==
  LET tag == CHOOSE x \in s.package_records_cache[pkg] : TRUE
      s1 == [GroupVersions(s, Listed(GwRecords(tag.ch, tag.pl, pkg)))
             EXCEPT !.collapsed_version_subdirs = {},
                    !.mode = "versions"]
      s2 == RenderVersionOptions(s1, FALSE)
  IN [s2 EXCEPT !.status = Msg("entries-across-platforms"),
                !.previewed_version_key = NoKey,
                !.pending_preview_version_key = NoKey,
                !.pending_preview_package = NONE,
                !.previewed_package = pkg]


(***************************************************************************)
(* The platform selection editor.                                          *)
(***************************************************************************)
\* the draft as the code reads it after "if draft is None: draft = set(selected)"
DraftOrSelected(s) ==
  IF s.draft_selected_platform_names = {} THEN s.selected_platform_names
  ELSE CHOOSE d \in s.draft_selected_platform_names : TRUE

\* _render_platform_options
RenderPlatformOptions(s) ==
  [s EXCEPT !.draft_selected_platform_names = {DraftOrSelected(s)},
            !.highlighted = 1]

\* _update_platform_selection_status
UpdatePlatformSelectionStatus(s) == [s EXCEPT !.status = Msg("platforms-selected")]

\* _open_platform_selector
OpenPlatformSelector(s) ==
  IF s.mode # "packages" THEN s
  ELSE UpdatePlatformSelectionStatus(RenderPlatformOptions(
         [s EXCEPT !.last_package_highlight = s.highlighted,
                   !.mode = "platforms",
                   !.draft_selected_platform_names = {s.selected_platform_names}]))

\* _toggle_platform_at_index without the test for the last remaining platform
\* (a faulty variant)
TogglePlatformAtIndexUnguarded(s, platform_index) ==
  IF platform_index < 1 \/ platform_index > Cardinality(s.available_platform_names)
  THEN s
  ELSE LET platform == SortedPlatforms(s.available_platform_names)[platform_index]
           draft == DraftOrSelected(s)
           toggled == IF platform \in draft THEN draft \ {platform}
                      ELSE draft \cup {platform}
       IN UpdatePlatformSelectionStatus(
            [RenderPlatformOptions(
               [s EXCEPT !.draft_selected_platform_names = {toggled}])
             EXCEPT !.highlighted = platform_index])

\* _toggle_platform_at_index (platform_index counts from 1 here)
TogglePlatformAtIndex(s, platform_index) ==
  IF platform_index < 1 \/ platform_index > Cardinality(s.available_platform_names)
  THEN s
  ELSE LET platform == SortedPlatforms(s.available_platform_names)[platform_index]
           draft == DraftOrSelected(s)
           s1 == [s EXCEPT !.draft_selected_platform_names = {draft}]
       IN IF platform \in draft /\ Cardinality(draft) = 1
          THEN [s1 EXCEPT !.status = Msg("at-least-one-platform")]
          ELSE LET toggled == IF platform \in draft THEN draft \ {platform}
                              ELSE draft \cup {platform}
               IN UpdatePlatformSelectionStatus(
                    [RenderPlatformOptions(
                       [s1 EXCEPT !.draft_selected_platform_names = {toggled}])
                     EXCEPT !.highlighted = platform_index])

(***************************************************************************)
(* The filter and the keys.                                                *)
(***************************************************************************)
\* _set_filter_mode
SetFilterMode(s, enabled, reset_query) ==
  LET s1 == [s EXCEPT !.filter_mode = enabled,
                      !.search_query = IF reset_query THEN <<>> ELSE @]
  IN IF s1.mode = "packages" THEN FilterPackages(s1) ELSE s1

\* _append_filter_char; a query of MaxQuery characters takes no more
AppendFilterChar(s, char) ==
  IF Len(s.search_query) >= MaxQuery THEN [s EXCEPT !.overflow = TRUE]
  ELSE FilterPackages([s EXCEPT !.search_query = Append(@, char)])

\* _set_channel_edit_mode
SetChannelEditMode(s, enabled, reset_draft) ==
  [s EXCEPT !.channel_edit_mode = enabled,
            !.channel_draft = IF reset_draft THEN <<s.channel_name>> ELSE @]

\* _append_channel_char; a draft of MaxQuery pieces takes no more
AppendChannelChar(s, char) ==
  IF Len(s.channel_draft) >= MaxQuery THEN [s EXCEPT !.overflow = TRUE]
  ELSE [s EXCEPT !.channel_draft = Append(@, char)]

\* action_filter_key_f and action_filter_key_slash
ActionFilterKey(s, char) ==
  IF s.channel_edit_mode THEN AppendChannelChar(s, char)
  ELSE IF s.mode # "packages" THEN s
  ELSE IF ~s.filter_mode THEN SetFilterMode(s, TRUE, TRUE)
  ELSE AppendFilterChar(s, char)

\* action_platform_key_p
ActionPlatformKeyP(s) ==
  IF s.channel_edit_mode THEN AppendChannelChar(s, "p")
  ELSE IF s.mode = "packages" /\ s.filter_mode THEN AppendFilterChar(s, "p")
  ELSE OpenPlatformSelector(s)

\* action_channel_key_c with the test of the filter left out (a faulty
\* variant)
ActionChannelKeyCUnguarded(s) ==
  IF s.channel_edit_mode THEN AppendChannelChar(s, "c")
  ELSE [SetChannelEditMode(s, TRUE, FALSE) EXCEPT !.channel_draft = <<>>]

\* action_channel_key_c
ActionChannelKeyC(s) ==
  IF s.channel_edit_mode THEN AppendChannelChar(s, "c")
  ELSE IF s.mode = "packages" /\ s.filter_mode THEN AppendFilterChar(s, "c")
  ELSE [SetChannelEditMode(s, TRUE, FALSE) EXCEPT !.channel_draft = <<>>]

\* action_quit_or_type_q
ActionQuitOrTypeQ(s) ==
  IF s.channel_edit_mode THEN AppendChannelChar(s, "q")
  ELSE IF s.mode = "packages" /\ s.filter_mode THEN AppendFilterChar(s, "q")
  ELSE [s EXCEPT !.exited = TRUE]

\* on_paste of a text without line ends
OnPaste(s, text) ==
  IF ~s.channel_edit_mode THEN s ELSE AppendChannelChar(s, text)

\* action_escape
ActionEscape(s) ==
  IF s.channel_edit_mode THEN SetChannelEditMode(s, FALSE, TRUE)
  ELSE IF s.mode \in {"versions", "platforms"} THEN BackToPackages(s)
  ELSE IF s.filter_mode THEN SetFilterMode(s, FALSE, TRUE)
  ELSE s

\* the keys on_key is modelled for: the named keys and the printable
\* characters that no binding and no mode takes for itself
PrintableKeys == {"b", "B"}
TypedKeys == {"backspace", "space"} \cup PrintableKeys

\* on_key without the test of the mode before the filter keys (a faulty
\* variant)
OnKeyInAnyMode(s, key) ==
  IF s.channel_edit_mode
  THEN IF key = "backspace"
       THEN [s EXCEPT !.channel_draft =
                        IF @ = <<>> THEN @ ELSE SubSeq(@, 1, Len(@) - 1)]
       ELSE IF key = "space" THEN AppendChannelChar(s, " ")
       ELSE AppendChannelChar(s, key)
  ELSE IF s.mode = "platforms" /\ key = "space"
  THEN IF s.highlighted = 0 THEN s ELSE TogglePlatformAtIndex(s, s.highlighted)
  ELSE IF ~s.filter_mode THEN s
  ELSE IF key = "backspace"
  THEN FilterPackages([s EXCEPT !.search_query =
                                  IF @ = <<>> THEN @ ELSE SubSeq(@, 1, Len(@) - 1)])
  ELSE IF key = "space" THEN AppendFilterChar(s, " ")
  ELSE AppendFilterChar(s, key)

\* on_key for a key of TypedKeys
OnKey(s, key) ==
  IF s.channel_edit_mode
  THEN IF key = "backspace"
       THEN [s EXCEPT !.channel_draft =
                        IF @ = <<>> THEN @ ELSE SubSeq(@, 1, Len(@) - 1)]
       ELSE IF key = "space" THEN AppendChannelChar(s, " ")
       ELSE AppendChannelChar(s, key)
  ELSE IF s.mode = "platforms" /\ key = "space"
  THEN IF s.highlighted = 0 THEN s ELSE TogglePlatformAtIndex(s, s.highlighted)
  ELSE IF ~s.filter_mode \/ s.mode # "packages" THEN s
  ELSE IF key = "backspace"
  THEN FilterPackages([s EXCEPT !.search_query =
                                  IF @ = <<>> THEN @ ELSE SubSeq(@, 1, Len(@) - 1)])
  ELSE IF key = "space" THEN AppendFilterChar(s, " ")
  ELSE AppendFilterChar(s, key)

\* the defaults without looking at what is available
DefaultPlatformSelectionUnrestricted(s) == {CurrentPlatform, "noarch"}

\* _default_platform_selection
DefaultPlatformSelection(s) ==
  IF CurrentPlatform \in s.available_platform_names
  THEN {CurrentPlatform} \cup ({"noarch"} \cap s.available_platform_names)
  ELSE IF "noarch" \in s.available_platform_names THEN {"noarch"}
  ELSE {SortedPlatforms(s.available_platform_names)[1]}

\* on_key "a" that selects every platform whatever the draft (a faulty
\* variant)
OnKeyASelectsAll(s) ==
  IF s.channel_edit_mode THEN AppendChannelChar(s, "a")
  ELSE IF s.mode = "platforms"
  THEN IF s.available_platform_names = {} THEN s
       ELSE LET s1 == RenderPlatformOptions(
                        [s EXCEPT !.draft_selected_platform_names =
                                    {s.available_platform_names}])
            IN UpdatePlatformSelectionStatus(
                 IF s.highlighted # 0
                 THEN [s1 EXCEPT !.highlighted =
                                   Min(s.highlighted, Cardinality(s.available_platform_names))]
                 ELSE s1)
  ELSE IF ~s.filter_mode \/ s.mode # "packages" THEN s
  ELSE AppendFilterChar(s, "a")

\* on_key "a": select all or the defaults in platforms mode, a character of
\* the channel draft or of the query elsewhere
OnKeyA(s) ==
  IF s.channel_edit_mode THEN AppendChannelChar(s, "a")
  ELSE IF s.mode = "platforms"
  THEN IF s.available_platform_names = {} THEN s
       ELSE LET draft == DraftOrSelected(s)
                s1 == RenderPlatformOptions(
                        [s EXCEPT !.draft_selected_platform_names =
                                    IF draft = s.available_platform_names
                                    THEN {DefaultPlatformSelection(s)}
                                    ELSE {s.available_platform_names}])
            IN UpdatePlatformSelectionStatus(
                 IF s.highlighted # 0
                 THEN [s1 EXCEPT !.highlighted =
                                   Min(s.highlighted, Cardinality(s.available_platform_names))]
                 ELSE s1)
  ELSE IF ~s.filter_mode \/ s.mode # "packages" THEN s
  ELSE AppendFilterChar(s, "a")

\* _ensure_available_platforms keeping only what the channel serves of the
\* selection, without the fall-back to the defaults (a faulty variant)
ReconcileSelectionNoDefault(s) ==
  [s EXCEPT !.selected_platform_names = @ \cap s.available_platform_names]

\* _ensure_available_platforms, from the return of discovery on, when some
\* platform is available
ReconcileSelection(s) ==
  LET kept == s.selected_platform_names \cap s.available_platform_names
  IN [s EXCEPT !.selected_platform_names =
                 IF kept # {} THEN kept ELSE DefaultPlatformSelection(s)]

(***************************************************************************)
(* Loading a channel.  A coroutine that suspends leaves in .await the      *)
(* gateway call it waits for, with the arguments it was issued with.       *)
(***************************************************************************)
Call(fn, ch, pl, pkg) == [fn |-> fn, ch |-> ch, pl |-> pl, pkg |-> pkg]

\* _fetch_package_names_with_gateway, up to its gateway call.  At both call
\* sites some platform is available, so _ensure_available_platforms neither
\* discovers nor raises here.
FetchPackageNamesBegin(s) ==
  LET s1 == ReconcileSelection(s)
  IN [s1 EXCEPT !.await = {Call("names", s1.channel_name,
                                s1.selected_platform_names, NONE)}]

\* _load_packages: the failure branch
LoadPackagesFailed(s) ==
  [s EXCEPT !.status = Msg("failed-to-load-repodata"), !.ret = FALSE]

\* _load_packages, from the return of platform discovery on
LoadPackagesDiscovered(s) ==
  IF s.available_platform_names = {} THEN LoadPackagesFailed(s)
  ELSE FetchPackageNamesBegin(
         [ReconcileSelection(s) EXCEPT !.status = Msg("downloading-repodata")])

\* _load_packages, up to its first gateway call
LoadPackagesBegin(s) ==
  LET s1 == [s EXCEPT !.status = Msg("discovering-platforms")]
  IN IF s1.available_platform_names = {}
     THEN [s1 EXCEPT !.await = {Call("discover", s1.channel_name, {}, NONE)}]
     ELSE LoadPackagesDiscovered(s1)

\* _load_packages, from the return of fetch_package_names(platforms pl) on
LoadPackagesNamed(s, pl, names) ==
  LET s1 == [s EXCEPT !.platforms = pl,
                      !.all_package_names = names,
                      !.visible_package_names = names]
      s2 == [RenderPackageOptions(s1, FALSE) EXCEPT
               !.list_disabled = FALSE,
               !.status = Msg("packages-in-selection"),
               !.ret = TRUE]
  IN IF s2.visible_package_names # <<>>
     THEN RequestPackagePreview(s2, s2.visible_package_names[1])
     ELSE s2

\* the fields _snapshot_channel_state copies
Snapshot(s) ==
  [ channel_name |-> s.channel_name,
    mode |-> s.mode,
    draft_selected_platform_names |-> s.draft_selected_platform_names,
    current_versions |-> s.current_versions,
    version_subdirs |-> s.version_subdirs,
    collapsed_version_subdirs |-> s.collapsed_version_subdirs,
    version_rows |-> s.version_rows,
    selected_package |-> s.selected_package,
    previewed_version_key |-> s.previewed_version_key,
    pending_preview_version_key |-> s.pending_preview_version_key,
    previewed_package |-> s.previewed_package,
    pending_preview_package |-> s.pending_preview_package,
    platforms |-> s.platforms,
    available_platform_names |-> s.available_platform_names,
    selected_platform_names |-> s.selected_platform_names,
    all_package_names |-> s.all_package_names,
    visible_package_names |-> s.visible_package_names,
    package_records_cache |-> s.package_records_cache,
    version_details_cache |-> s.version_details_cache,
    last_package_highlight |-> s.last_package_highlight ]

\* _restore_channel_state leaving the caches as the failed load left them (a
\* faulty variant)
RestoreChannelStateWithoutCaches(s, snapshot) ==
  [s EXCEPT !.channel_name = snapshot.channel_name,
            !.mode = snapshot.mode,
            !.draft_selected_platform_names = snapshot.draft_selected_platform_names,
            !.current_versions = snapshot.current_versions,
            !.version_subdirs = snapshot.version_subdirs,
            !.collapsed_version_subdirs = snapshot.collapsed_version_subdirs,
            !.version_rows = snapshot.version_rows,
            !.selected_package = snapshot.selected_package,
            !.previewed_version_key = snapshot.previewed_version_key,
            !.pending_preview_version_key = snapshot.pending_preview_version_key,
            !.previewed_package = snapshot.previewed_package,
            !.pending_preview_package = snapshot.pending_preview_package,
            !.platforms = snapshot.platforms,
            !.available_platform_names = snapshot.available_platform_names,
            !.selected_platform_names = snapshot.selected_platform_names,
            !.all_package_names = snapshot.all_package_names,
            !.visible_package_names = snapshot.visible_package_names,
            !.last_package_highlight = snapshot.last_package_highlight]

\* _restore_channel_state
RestoreChannelState(s, snapshot) ==
  [s EXCEPT !.channel_name = snapshot.channel_name,
            !.mode = snapshot.mode,
            !.draft_selected_platform_names = snapshot.draft_selected_platform_names,
            !.current_versions = snapshot.current_versions,
            !.version_subdirs = snapshot.version_subdirs,
            !.collapsed_version_subdirs = snapshot.collapsed_version_subdirs,
            !.version_rows = snapshot.version_rows,
            !.selected_package = snapshot.selected_package,
            !.previewed_version_key = snapshot.previewed_version_key,
            !.pending_preview_version_key = snapshot.pending_preview_version_key,
            !.previewed_package = snapshot.previewed_package,
            !.pending_preview_package = snapshot.pending_preview_package,
            !.platforms = snapshot.platforms,
            !.available_platform_names = snapshot.available_platform_names,
            !.selected_platform_names = snapshot.selected_platform_names,
            !.all_package_names = snapshot.all_package_names,
            !.visible_package_names = snapshot.visible_package_names,
            !.package_records_cache = snapshot.package_records_cache,
            !.version_details_cache = snapshot.version_details_cache,
            !.last_package_highlight = snapshot.last_package_highlight]


(***************************************************************************)
(* Committing the platform draft and switching the channel.                *)
(***************************************************************************)
\* _apply_platform_selection without the return for a draft equal to the
\* committed set (a faulty variant)
ApplyPlatformSelectionAlwaysReloads(s) ==
  LET draft == IF s.draft_selected_platform_names \in {{}, {{}}}
               THEN s.selected_platform_names
               ELSE CHOOSE d \in s.draft_selected_platform_names : TRUE
      selected == draft \cap s.available_platform_names
  IN IF selected = {}
     THEN [s EXCEPT !.status = Msg("select-at-least-one-platform")]
     ELSE FetchPackageNamesBegin(ResetPreviewState(ClearRecordCaches(
            [s EXCEPT !.selected_platform_names = selected,
                      !.draft_selected_platform_names = {},
                      !.status = Msg("loading-repodata-for-platforms")])))

\* _apply_platform_selection without _clear_record_caches (a faulty variant)
ApplyPlatformSelectionKeepsCaches(s) ==
  LET draft == IF s.draft_selected_platform_names \in {{}, {{}}}
               THEN s.selected_platform_names
               ELSE CHOOSE d \in s.draft_selected_platform_names : TRUE
      selected == draft \cap s.available_platform_names
  IN IF selected = {}
     THEN [s EXCEPT !.status = Msg("select-at-least-one-platform")]
     ELSE IF selected = s.selected_platform_names
     THEN BackToPackages([s EXCEPT !.draft_selected_platform_names = {}])
     ELSE FetchPackageNamesBegin(ResetPreviewState(
            [s EXCEPT !.selected_platform_names = selected,
                      !.draft_selected_platform_names = {},
                      !.status = Msg("loading-repodata-for-platforms")]))

\* _apply_platform_selection, up to its gateway call; .await is empty when it
\* returned before one
ApplyPlatformSelectionBegin(s) ==
  LET draft == IF s.draft_selected_platform_names \in {{}, {{}}}
               THEN s.selected_platform_names
               ELSE CHOOSE d \in s.draft_selected_platform_names : TRUE
      selected == draft \cap s.available_platform_names
  IN IF selected = {}
     THEN [s EXCEPT !.status = Msg("select-at-least-one-platform")]
     ELSE IF selected = s.selected_platform_names
     THEN BackToPackages([s EXCEPT !.draft_selected_platform_names = {}])
     ELSE FetchPackageNamesBegin(ResetPreviewState(ClearRecordCaches(
            [s EXCEPT !.selected_platform_names = selected,
                      !.draft_selected_platform_names = {},
                      !.status = Msg("loading-repodata-for-platforms")])))

\* _apply_platform_selection, from the return of the name listing on
ApplyPlatformSelectionNamed(s, pl, names) ==
  FilterPackages([s EXCEPT !.platforms = pl,
                           !.all_package_names = names,
                           !.mode = "packages"])

\* _apply_platform_selection: the gateway failed
ApplyPlatformSelectionFailed(s, previous_platforms) ==
  BackToPackages([s EXCEPT !.selected_platform_names = previous_platforms,
                           !.status = Msg("failed-to-load-selected-platforms")])

\* _apply_channel_selection, up to the await of _load_packages
ApplyChannelSelectionBegin(s, channel) ==
  LET s1 == ClearChannelLoadedState([s EXCEPT !.channel_name = channel])
  IN LoadPackagesBegin([s1 EXCEPT !.list_disabled = TRUE,
                                  !.pane = Text("loading-channel", channel, NoKey, 0, {})])

\* _apply_channel_selection, from the return of _load_packages on, without the
\* call of _back_to_packages after the restore (a faulty variant)
ApplyChannelSelectionLoadedInPlace(s, previous_state) ==
  IF ~s.ret
  THEN [RestoreChannelState(s, previous_state) EXCEPT
          !.list_disabled = FALSE,
          !.notice = Msg("failed-to-load-channel")]
  ELSE [s EXCEPT !.notice = Msg("switched-to-channel")]

\* _apply_channel_selection, from the return of _load_packages on
ApplyChannelSelectionLoaded(s, previous_state) ==
  IF ~s.ret
  THEN [BackToPackages(RestoreChannelState(s, previous_state)) EXCEPT
          !.list_disabled = FALSE,
          !.notice = Msg("failed-to-load-channel")]
  ELSE [s EXCEPT !.notice = Msg("switched-to-channel")]

(***************************************************************************)
(* Resizing.                                                               *)
(***************************************************************************)
\* _highlighted_version_row: {} is None
HighlightedVersionRow(s) ==
  IF s.mode # "versions" THEN {}
  ELSE IF s.highlighted = 0 \/ s.highlighted > Len(s.version_rows) THEN {}
  ELSE {s.version_rows[s.highlighted]}

\* _rerender_visible_version_preview
RerenderVisibleVersionPreview(s) ==
  LET rows == HighlightedVersionRow(s)
      row == CHOOSE r \in rows : TRUE
  IN IF s.mode # "versions" THEN s
     ELSE IF s.selected_package = NONE THEN s
     ELSE IF rows = {} THEN s
     ELSE IF row.kind # "entry" \/ row.entry = {} THEN s
     ELSE RequestSelectedVersionPreview(
            [s EXCEPT !.version_details_cache = {},
                      !.previewed_version_key = NoKey,
                      !.pending_preview_version_key = NoKey],
            s.selected_package, CHOOSE e \in row.entry : TRUE)

\* _refresh_after_resize
RefreshAfterResize(s) ==
  IF s.mode = "packages" THEN RenderPackageOptions(s, TRUE)
  ELSE IF s.mode = "versions"
  THEN RerenderVisibleVersionPreview(
         [RenderVersionOptions(s, TRUE) EXCEPT !.status = Msg("entries-across-platforms")])
  ELSE LET s1 == RenderPlatformOptions(s)
       IN UpdatePlatformSelectionStatus(
            IF s.highlighted # 0 /\ s.available_platform_names # {}
            THEN [s1 EXCEPT !.highlighted =
                              Min(s.highlighted, Cardinality(s.available_platform_names))]
            ELSE s1)


(***************************************************************************)
(* The download manager.  A path of the current directory is               *)
(* <<file name, "dest">> or <<file name, "part">> (the file name with      *)
(* .part appended); its content is "absent", "partial" or "complete".      *)
(***************************************************************************)
Paths == FileNames \X {"dest", "part"}
Destination(entry) == <<entry.file_name, "dest">>
TemporaryDestination(entry) == <<entry.file_name, "part">>

\* _request_download_for_highlighted_entry without its test of the guard (a
\* faulty variant)
RequestDownloadUnguarded(s, raises) ==
  LET rows == HighlightedVersionRow(s)
      row == CHOOSE r \in rows : TRUE
  IN IF s.mode # "versions" THEN s
     ELSE IF s.selected_package = NONE THEN s
     ELSE IF rows = {} \/ row.kind # "entry" \/ row.entry = {}
     THEN [s EXCEPT !.notice = Msg("select-a-version-entry")]
     ELSE IF raises
     THEN [s EXCEPT !.download_in_progress = FALSE, !.crashed = TRUE]
     ELSE RunWorker([s EXCEPT !.download_in_progress = TRUE],
                    "version-download", s.selected_package, row.entry, NONE, {})

\* _request_download_for_highlighted_entry; raises: run_worker raised
RequestDownloadForHighlightedEntry(s, raises) ==
  LET rows == HighlightedVersionRow(s)
      row == CHOOSE r \in rows : TRUE
  IN IF s.mode # "versions" THEN s
     ELSE IF s.download_in_progress THEN s
     ELSE IF s.selected_package = NONE THEN s
     ELSE IF rows = {} \/ row.kind # "entry" \/ row.entry = {}
     THEN [s EXCEPT !.notice = Msg("select-a-version-entry")]
     ELSE IF raises
     THEN [s EXCEPT !.download_in_progress = FALSE, !.crashed = TRUE]
     ELSE RunWorker([s EXCEPT !.download_in_progress = TRUE],
                    "version-download", s.selected_package, row.entry, NONE, {})

\* _download_selected_version_entry, up to its first await
DownloadBegin(s) == [s EXCEPT !.download_in_progress = TRUE]

\* the success path of _download_selected_version_entry ending like
\* _open_versions, with the last-applied version key reset (a faulty variant)
DownloadSucceededResetsPreview(s, entry) ==
  [s EXCEPT !.fs = [@ EXCEPT ![Destination(entry)] = s.fs[TemporaryDestination(entry)],
                             ![TemporaryDestination(entry)] = "absent"],
            !.download_in_progress = FALSE,
            !.notice = Msg("downloaded-successfully"),
            !.previewed_version_key = NoKey]

\* _download_selected_version_entry: the transfer returned; rename, then the
\* finally block, then the success notification
DownloadSucceeded(s, entry) ==
  LET s1 == [s EXCEPT !.fs = [@ EXCEPT ![Destination(entry)] = s.fs[TemporaryDestination(entry)],
                                       ![TemporaryDestination(entry)] = "absent"],
                      !.download_in_progress = FALSE]
  IN [s1 EXCEPT !.status = IF s1.mode = "versions" THEN Msg("entries-across-platforms")
                           ELSE @,
                !.notice = Msg("downloaded-successfully")]

\* the except branch of _download_selected_version_entry without the unlink (a
\* faulty variant: the partial file stays)
DownloadFailedLeavesPart(s, temporary) ==
  [s EXCEPT !.notice = Msg("download-failed"),
            !.download_in_progress = FALSE]

\* the except branch of _download_selected_version_entry without the finally
\* block (a faulty variant: the guard stays set)
DownloadFailedKeepsGuard(s, temporary) ==
  [s EXCEPT !.fs = [p \in Paths |-> IF p \in temporary THEN "absent" ELSE @[p]],
            !.notice = Msg("download-failed")]

\* _download_selected_version_entry: the except branch, then the finally block;
\* temporary is {} when the exception came before the transfer was set up
DownloadFailed(s, temporary) ==
  [s EXCEPT !.fs = [p \in Paths |-> IF p \in temporary THEN "absent" ELSE @[p]],
            !.notice = Msg("download-failed"),
            !.download_in_progress = FALSE]

\* download_url_to_path opening the final name instead of the name it is
\* given (a faulty variant: the transfer writes in place)
TransferOpenInPlace(files, path) == [files EXCEPT ![<<path[1], "dest">>] = "partial"]

\* download_url_to_path: destination.open("wb") once the URL is open
TransferOpen(files, path) == [files EXCEPT ![path] = "partial"]

\* download_url_to_path: shutil.copyfileobj ran to the end
TransferCopy(files, path) == [files EXCEPT ![path] = "complete"]

(***************************************************************************)
(* The list widget's messages.                                             *)
(***************************************************************************)
\* how many options the sidebar list holds
OptionCount(s) ==
  IF s.mode = "packages" THEN Len(s.visible_package_names)
  ELSE IF s.mode = "versions" THEN Len(s.version_rows)
  ELSE Cardinality(s.available_platform_names)

\* on_option_list_option_highlighted (option_index counts from 1 here)
OnOptionListOptionHighlighted(s, option_index) ==
  IF s.mode = "packages"
  THEN IF s.visible_package_names = <<>> THEN s
       ELSE IF option_index < 1 \/ option_index > Len(s.visible_package_names) THEN s
       ELSE RequestPackagePreview(s, s.visible_package_names[option_index])
  ELSE IF s.mode # "versions" THEN s
  ELSE IF option_index < 1 \/ option_index > Len(s.version_rows) THEN s
  ELSE LET row == s.version_rows[option_index]
           package_name == s.selected_package
       IN IF package_name = NONE THEN s
          ELSE IF row.kind = "entry" /\ row.entry # {}
          THEN RequestSelectedVersionPreview(s, package_name, CHOOSE e \in row.entry : TRUE)
          ELSE IF row.kind = "section" /\ row.subdir # NONE
          THEN [s EXCEPT !.pane = Text("section", package_name, NoKey, 0, {})]
          ELSE IF row.kind = "back" /\ s.package_records_cache[package_name] # {}
          THEN UpdateMainPanelForPackage(s, package_name,
                                         s.package_records_cache[package_name])
          ELSE s

\* _toggle_version_section that collapses and never expands (a faulty variant)
ToggleVersionSectionOneWay(s, subdir) ==
  LET s1 == [s EXCEPT !.collapsed_version_subdirs = @ \cup {subdir}]
      s2 == RenderVersionOptions(s1, FALSE)
      at == {i \in 1..Len(s2.version_rows) :
               s2.version_rows[i].kind = "section" /\ s2.version_rows[i].subdir = subdir}
  IN IF at = {} THEN s2
     ELSE [s2 EXCEPT !.highlighted = CHOOSE i \in at : \A j \in at : i <= j]

\* _toggle_version_section
ToggleVersionSection(s, subdir) ==
  LET s1 == [s EXCEPT !.collapsed_version_subdirs =
                        IF subdir \in @ THEN @ \ {subdir} ELSE @ \cup {subdir}]
      s2 == RenderVersionOptions(s1, FALSE)
      at == {i \in 1..Len(s2.version_rows) :
               s2.version_rows[i].kind = "section" /\ s2.version_rows[i].subdir = subdir}
  IN IF at = {} THEN s2
     ELSE [s2 EXCEPT !.highlighted = CHOOSE i \in at : \A j \in at : i <= j]

\* on_option_list_option_selected in versions mode
OnOptionSelectedInVersions(s, option_index) ==
  IF option_index < 1 \/ option_index > Len(s.version_rows) THEN s
  ELSE LET row == s.version_rows[option_index]
       IN IF row.kind = "back" THEN BackToPackages(s)
          ELSE IF row.kind = "section"
          THEN [ToggleVersionSection(s, row.subdir) EXCEPT
                  !.status = Msg("entries-across-platforms")]
          ELSE IF row.kind # "entry" \/ row.entry = {} THEN s
          ELSE RequestSelectedVersionPreview(
                 s, IF s.selected_package = NONE THEN "<unknown>" ELSE s.selected_package,
                 CHOOSE e \in row.entry : TRUE)

\* _get_package_records, from the return of query_package_records on
CacheRecords(s, call) ==
  [s EXCEPT !.package_records_cache[call.pkg] = {Tag(call.ch, call.pl)}]


(***************************************************************************)
(* The initial state: the controller as __init__ leaves it, with the mount *)
(* event about to be handled.                                              *)
(***************************************************************************)
\* the default_platforms the command line can pass
InitialPlatformChoices == {{}, {"osx-64"}}

\* no function is taken on its own: the controller runs
NoFrame == [fn |-> NONE, args |-> <<>>, ret |-> {}]

HandlerTask(op, pkg, prev) == [op |-> op, call |-> {}, pkg |-> pkg, prev |-> prev]

\* the controller after __init__
Constructed ==
  /\ mode = "packages"
  /\ channel_name = "conda-forge"
  /\ available_platform_names = {}
  /\ selected_platform_names \in InitialPlatformChoices
  /\ draft_selected_platform_names = {}
  /\ platforms = {}
  /\ all_package_names = <<>>
  /\ visible_package_names = <<>>
  /\ package_records_cache = [n \in QueriedNames |-> {}]
  /\ version_details_cache = {}
  /\ previewed_package = NONE
  /\ pending_preview_package = NONE
  /\ previewed_version_key = NoKey
  /\ pending_preview_version_key = NoKey
  /\ selected_package = NONE
  /\ current_versions = <<>>
  /\ version_subdirs = <<>>
  /\ collapsed_version_subdirs = {}
  /\ version_rows = <<>>
  /\ highlighted = 0
  /\ list_disabled = FALSE
  /\ last_package_highlight = 0
  /\ download_in_progress = FALSE
  /\ filter_mode = FALSE
  /\ search_query = <<>>
  /\ channel_edit_mode = FALSE
  /\ channel_draft = <<channel_name>>
  /\ exited = FALSE
  /\ pane = Msg("select-a-package")
  /\ status = Msg("loading-repodata")
  /\ notice = Msg("none")
  /\ width = 1
  /\ resize_callbacks = 0
  /\ workers = EmptyBag
  /\ handler = {HandlerTask("mount", NONE, {})}
  /\ crashed = FALSE
  /\ fs = [p \in Paths |-> "absent"]

Init == Constructed /\ frame = NoFrame

(***************************************************************************)
(* Steps of the message pump.  The pump handles one message at a time: a   *)
(* handler suspended in an await (on_mount, on_option_list_option_selected)*)
(* keeps later messages waiting; workers run meanwhile.                    *)
(***************************************************************************)
\* the application runs: no exception left a handler and exit() was not called
Running == ~crashed /\ ~exited

PumpIdle == Running /\ handler = {}

\* the handler h suspends on the call left in t.await, or is over
Suspend(t, h) ==
  [t EXCEPT !.handler = IF t.await = {} THEN {} ELSE {[h EXCEPT !.call = t.await]}]

\* the handler that waits for gateway call fn
Awaiting(op, fn) ==
  {h \in handler : h.op = op /\ \E c \in h.call : c.fn = fn}

TheCall(task) == CHOOSE c \in task.call : TRUE

\* on_mount, up to the first gateway call of _load_packages
MountStart ==
  /\ Running
  /\ \E h \in handler :
       /\ h.op = "mount" /\ h.call = {}
       /\ Becomes(Suspend(LoadPackagesBegin([St EXCEPT !.list_disabled = TRUE]), h))

\* on_mount: platform discovery returned (no platform when every probe failed)
MountDiscovered ==
  /\ Running
  /\ \E h \in Awaiting("mount", "discover") :
       \E found \in {GwPlatforms(TheCall(h).ch), {}} :
         Becomes(Suspend(LoadPackagesDiscovered(
                           [St EXCEPT !.available_platform_names = found]), h))

\* on_mount: the name listing returned
MountNamed ==
  /\ Running
  /\ \E h \in Awaiting("mount", "names") :
       LET c == TheCall(h)
       IN Becomes(Suspend(LoadPackagesNamed(St, c.pl, GwNames(c.ch, c.pl)), h))

\* on_mount: the name listing raised GatewayError
MountNamesFailed ==
  /\ Running
  /\ \E h \in Awaiting("mount", "names") :
       Becomes(Suspend(LoadPackagesFailed(St), h))

\* on_option_list_option_highlighted: the highlight moved to option i
Highlight(i) ==
  /\ PumpIdle /\ ~list_disabled
  /\ i \in 1..OptionCount(St)
  /\ Becomes(OnOptionListOptionHighlighted([St EXCEPT !.highlighted = i], i))

\* on_option_list_option_selected in packages mode: _open_versions up to the
\* record query, or to its end when the records are cached
SelectPackage ==
  /\ PumpIdle /\ ~list_disabled
  /\ mode = "packages"
  /\ visible_package_names # <<>>
  /\ highlighted \in 1..Len(visible_package_names)
  /\ LET pkg == visible_package_names[highlighted]
         s1 == [St EXCEPT !.last_package_highlight = highlighted,
                          !.selected_package = pkg]
     IN IF package_records_cache[pkg] # {}
        THEN Becomes(OpenVersionsRest(s1, pkg))
        ELSE Becomes(Suspend([s1 EXCEPT !.await = {Call("query", channel_name,
                                                        platforms, pkg)}],
                             HandlerTask("open", pkg, {})))

\* _open_versions: the record query returned
OpenVersionsQueried ==
  /\ Running
  /\ \E h \in Awaiting("open", "query") :
       Becomes(Suspend(OpenVersionsRest(CacheRecords(St, TheCall(h)), h.pkg), h))

\* _open_versions: the record query raised GatewayError, which nothing catches
OpenVersionsQueryFailed ==
  /\ Running
  /\ \E h \in Awaiting("open", "query") :
       Becomes([St EXCEPT !.handler = {}, !.crashed = TRUE])

\* on_option_list_option_selected in versions mode
SelectVersionRow ==
  /\ PumpIdle /\ ~list_disabled
  /\ mode = "versions"
  /\ highlighted # 0
  /\ Becomes(OnOptionSelectedInVersions(St, highlighted))

\* on_option_list_option_selected in platforms mode: _apply_platform_selection
\* up to the name listing
SelectPlatforms ==
  /\ PumpIdle /\ ~list_disabled
  /\ mode = "platforms"
  /\ highlighted # 0
  /\ Becomes(Suspend(ApplyPlatformSelectionBegin(St),
                     HandlerTask("apply", NONE, selected_platform_names)))

\* _apply_platform_selection: the name listing returned
ApplyNamed ==
  /\ Running
  /\ \E h \in Awaiting("apply", "names") :
       LET c == TheCall(h)
       IN Becomes(Suspend(ApplyPlatformSelectionNamed(St, c.pl, GwNames(c.ch, c.pl)), h))

\* _apply_platform_selection: the name listing raised GatewayError
ApplyNamesFailed ==
  /\ Running
  /\ \E h \in Awaiting("apply", "names") :
       Becomes(Suspend(ApplyPlatformSelectionFailed(St, h.prev), h))

\* action_platform_key_p
KeyP ==
  /\ PumpIdle
  /\ Becomes(ActionPlatformKeyP(St))

\* on_key "space" in platforms mode
KeySpace ==
  /\ PumpIdle
  /\ ~channel_edit_mode
  /\ mode = "platforms"
  /\ highlighted # 0
  /\ Becomes(TogglePlatformAtIndex(St, highlighted))

\* action_escape
Escape ==
  /\ PumpIdle
  /\ Becomes(ActionEscape(St))

\* action_filter_key_f
KeyF ==
  /\ PumpIdle
  /\ Becomes(ActionFilterKey(St, "f"))

\* action_filter_key_slash
KeySlash ==
  /\ PumpIdle
  /\ Becomes(ActionFilterKey(St, "/"))

\* on_key: backspace, space or a printable character
KeyTyped ==
  /\ PumpIdle
  /\ \E key \in TypedKeys : Becomes(OnKey(St, key))

\* on_key "a"
KeyA ==
  /\ PumpIdle
  /\ Becomes(OnKeyA(St))

\* action_channel_key_c
KeyC ==
  /\ PumpIdle
  /\ Becomes(ActionChannelKeyC(St))

\* action_quit_or_type_q
KeyQ ==
  /\ PumpIdle
  /\ Becomes(ActionQuitOrTypeQ(St))

\* on_key "d" in versions mode
KeyD ==
  /\ PumpIdle
  /\ ~channel_edit_mode
  /\ mode = "versions"
  /\ \E raises \in BOOLEAN :
       Becomes(RequestDownloadForHighlightedEntry(St, raises))


(***************************************************************************)
(* Steps of the workers.                                                   *)
(***************************************************************************)
At(group, pc) == {w \in BagToSet(workers) : w.group = group /\ w.pc = pc}

\* the worker goes on as w2
Continue(t, w, w2) == [t EXCEPT !.workers = (@ (-) SetToBag({w})) (+) SetToBag({w2})]

\* the worker suspends in a record query for its package
Query(w) ==
  [w EXCEPT !.pc = "query",
            !.call = {Call("query", channel_name, platforms, w.pkg)}]

\* _load_and_render_package_preview starts: a cached list is applied at once
PackagePreviewStart ==
  /\ Running
  /\ \E w \in At("package-preview", "new") :
       IF package_records_cache[w.pkg] # {}
       THEN Becomes(Finish(ApplyPackagePreview(St, w.pkg), w))
       ELSE Becomes(Continue(St, w, Query(w)))

\* _load_and_render_package_preview: the record query returned
PackagePreviewQueried ==
  /\ Running
  /\ \E w \in At("package-preview", "query") :
       Becomes(Finish(ApplyPackagePreview(CacheRecords(St, TheCall(w)), w.pkg), w))

\* _load_and_render_selected_version_preview starts
VersionPreviewStart ==
  /\ Running
  /\ \E w \in At("version-preview", "new") :
       IF package_records_cache[w.pkg] # {}
       THEN Becomes(Finish(ApplyVersionPreview(St, w.pkg, CHOOSE e \in w.entry : TRUE), w))
       ELSE Becomes(Continue(St, w, Query(w)))

\* _load_and_render_selected_version_preview: the record query returned
VersionPreviewQueried ==
  /\ Running
  /\ \E w \in At("version-preview", "query") :
       Becomes(Finish(ApplyVersionPreview(CacheRecords(St, TheCall(w)), w.pkg,
                                          CHOOSE e \in w.entry : TRUE), w))

\* a preview worker's record query raised GatewayError: the worker ends
\* (exit_on_error=False), nothing else happens
PreviewQueryFailed ==
  /\ Running
  /\ \E w \in At("package-preview", "query") \cup At("version-preview", "query") :
       Becomes(Finish(St, w))

\* a cancelled worker gets CancelledError at its await (or never starts)
DropCancelled ==
  /\ Running
  /\ \E w \in BagToSet(workers) :
       /\ w.cancelled
       /\ w.group # "version-download"
       /\ Becomes(Finish(St, w))

\* the transfer is set up: asyncio.to_thread(download_url_to_path, ...)
Transfer(w) == [w EXCEPT !.pc = "transfer", !.xfer = "connect", !.call = {}]

\* _download_selected_version_entry starts
DownloadStart ==
  /\ Running
  /\ \E w \in At("version-download", "new") :
       IF package_records_cache[w.pkg] # {}
       THEN Becomes(Continue(DownloadBegin(St), w, Transfer(w)))
       ELSE Becomes(Continue(DownloadBegin(St), w, Query(w)))

\* _download_selected_version_entry: the record lookup returned
DownloadLooked ==
  /\ Running
  /\ \E w \in At("version-download", "query") :
       Becomes(Continue(CacheRecords(St, TheCall(w)), w, Transfer(w)))

\* _download_selected_version_entry: the record lookup raised
DownloadLookupFailed ==
  /\ Running
  /\ \E w \in At("version-download", "query") :
       Becomes(Finish(DownloadFailed(St, {}), w))

\* the transfer thread: the URL opened and the .part file was created
ThreadOpened ==
  /\ Running
  /\ \E w \in At("version-download", "transfer") :
       /\ w.xfer = "connect"
       /\ LET e == CHOOSE x \in w.entry : TRUE
          IN Becomes(Continue([St EXCEPT !.fs = TransferOpen(@, TemporaryDestination(e))],
                              w, [w EXCEPT !.xfer = "open"]))

\* the transfer thread: urlopen raised (unreachable URL, timeout)
ThreadConnectFailed ==
  /\ Running
  /\ \E w \in At("version-download", "transfer") :
       /\ w.xfer = "connect"
       /\ Becomes(Continue(St, w, [w EXCEPT !.xfer = "failed"]))

\* the transfer thread: the copy ran to the end
ThreadCopied ==
  /\ Running
  /\ \E w \in At("version-download", "transfer") :
       /\ w.xfer = "open"
       /\ LET e == CHOOSE x \in w.entry : TRUE
          IN Becomes(Continue([St EXCEPT !.fs = TransferCopy(@, TemporaryDestination(e))],
                              w, [w EXCEPT !.xfer = "done"]))

\* the transfer thread: the copy raised part way (connection lost, timeout)
ThreadCopyFailed ==
  /\ Running
  /\ \E w \in At("version-download", "transfer") :
       /\ w.xfer = "open"
       /\ Becomes(Continue(St, w, [w EXCEPT !.xfer = "failed"]))

\* _download_selected_version_entry: the transfer returned
DownloadTransferred ==
  /\ Running
  /\ \E w \in At("version-download", "transfer") :
       /\ w.xfer = "done"
       /\ Becomes(Finish(DownloadSucceeded(St, CHOOSE x \in w.entry : TRUE), w))

\* _download_selected_version_entry: the transfer raised
DownloadTransferFailed ==
  /\ Running
  /\ \E w \in At("version-download", "transfer") :
       /\ w.xfer = "failed"
       /\ Becomes(Finish(DownloadFailed(St, {TemporaryDestination(CHOOSE x \in w.entry : TRUE)}),
                         w))


\* _confirm_channel_edit for a draft that is one pasted channel name
ConfirmChannelEditDraft(s) ==
  RunWorker(SetChannelEditMode(s, FALSE, FALSE), "channel-selection", NONE, {},
            s.channel_draft[1], {})

\* the c key where it starts an edit, the channel name ch pasted into the
\* empty draft, and Enter: action_channel_key_c, on_paste and on_key's
\* _confirm_channel_edit
ConfirmChannelEdit(ch) ==
  /\ PumpIdle
  /\ ~channel_edit_mode
  /\ LET started == ActionChannelKeyC(St)
         pasted == OnPaste(started, ch)
     IN /\ started.channel_edit_mode
        /\ pasted.channel_draft = <<ch>>
        /\ Becomes(ConfirmChannelEditDraft(pasted))

\* _confirm_channel_edit by a user who leaves the first channel for the second
\* and lets a switch end before asking for another
SwitchAway ==
  /\ channel_name = "conda-forge"
  /\ \A w \in BagToSet(workers) : w.group # "channel-selection"
  /\ ConfirmChannelEdit("bioconda")

\* the worker's pending gateway call becomes the one the coroutine left
Recall(t, w) == [w EXCEPT !.pc = (CHOOSE c \in t.await : TRUE).fn, !.call = t.await]

\* _apply_channel_selection starts: nothing to do for the current channel,
\* else snapshot, clear, and load up to platform discovery
ChannelStart ==
  /\ Running
  /\ \E w \in At("channel-selection", "new") :
       IF w.ch = channel_name
       THEN Becomes(Finish(St, w))
       ELSE LET t == ApplyChannelSelectionBegin(St, w.ch)
            IN Becomes(Continue(t, w, [Recall(t, w) EXCEPT !.snap = {Snapshot(St)}]))

\* _apply_channel_selection: platform discovery returned
ChannelDiscovered ==
  /\ Running
  /\ \E w \in At("channel-selection", "discover") :
       \E found \in {GwPlatforms(TheCall(w).ch), {}} :
         LET t == LoadPackagesDiscovered([St EXCEPT !.available_platform_names = found])
         IN IF t.await = {}
            THEN Becomes(Finish(ApplyChannelSelectionLoaded(t, CHOOSE x \in w.snap : TRUE), w))
            ELSE Becomes(Continue(t, w, Recall(t, w)))

\* _apply_channel_selection: the name listing returned
ChannelNamed ==
  /\ Running
  /\ \E w \in At("channel-selection", "names") :
       LET c == TheCall(w)
       IN Becomes(Finish(ApplyChannelSelectionLoaded(
                           LoadPackagesNamed(St, c.pl, GwNames(c.ch, c.pl)),
                           CHOOSE x \in w.snap : TRUE), w))

\* _apply_channel_selection: the name listing raised GatewayError
ChannelNamesFailed ==
  /\ Running
  /\ \E w \in At("channel-selection", "names") :
       Becomes(Finish(ApplyChannelSelectionLoaded(LoadPackagesFailed(St),
                                                  CHOOSE x \in w.snap : TRUE), w))

\* on_resize: the viewport takes width w; the refresh is queued
OnResize(w) ==
  /\ PumpIdle
  /\ w # width
  /\ resize_callbacks < MaxCallbacks
  /\ Becomes([St EXCEPT !.width = w, !.resize_callbacks = @ + 1])

\* the queued _refresh_after_resize runs
ResizeRefreshed ==
  /\ PumpIdle
  /\ resize_callbacks > 0
  /\ Becomes(RefreshAfterResize([St EXCEPT !.resize_callbacks = @ - 1]))

(***************************************************************************)
(* The specifications.                                                     *)
(***************************************************************************)
Loading ==
  \/ MountStart
  \/ MountDiscovered
  \/ MountNamed
  \/ MountNamesFailed

Highlighting == \E i \in 1..MaxRows : Highlight(i)

\* the highlight moves within a version list only (the user opens the package
\* the packages list highlights first)
RowHighlighting == \E i \in 1..MaxRows : mode = "versions" /\ Highlight(i)

Opening ==
  \/ SelectPackage
  \/ OpenVersionsQueried
  \/ OpenVersionsQueryFailed

Returning ==
  \/ SelectVersionRow
  \/ Escape

Navigation == Highlighting \/ Opening \/ Returning

PackagePreviews ==
  \/ PackagePreviewStart
  \/ PackagePreviewQueried
  \/ PreviewQueryFailed
  \/ DropCancelled

Previews == PackagePreviews \/ VersionPreviewStart

Downloads ==
  \/ KeyD
  \/ DownloadStart
  \/ ThreadOpened
  \/ ThreadConnectFailed
  \/ ThreadCopied
  \/ ThreadCopyFailed
  \/ DownloadTransferred
  \/ DownloadTransferFailed

\* the queries of tasks of a version list whose records left the cache
\* between run_worker and the task's first step
Lookups ==
  \/ VersionPreviewQueried
  \/ DownloadLooked
  \/ DownloadLookupFailed

Filtering ==
  \/ KeyF
  \/ KeySlash
  \/ KeyTyped

PlatformEditing ==
  \/ KeyP
  \/ KeySpace
  \/ SelectPlatforms
  \/ ApplyNamed
  \/ ApplyNamesFailed

ChannelEditing ==
  \/ KeyC
  \/ KeyQ

\* the tasks of _apply_channel_selection
ChannelLoading ==
  \/ ChannelStart
  \/ ChannelDiscovered
  \/ ChannelNamed
  \/ ChannelNamesFailed

ChannelSwitching ==
  \/ \E ch \in Channels : ConfirmChannelEdit(ch)
  \/ ChannelLoading

Resizing ==
  \/ \E w \in 1..MaxWidth : OnResize(w)
  \/ ResizeRefreshed

Next ==
  \/ Loading
  \/ Navigation
  \/ Previews
  \/ Downloads
  \/ Lookups
  \/ Filtering
  \/ PlatformEditing
  \/ KeyA
  \/ ChannelEditing
  \/ ChannelSwitching
  \/ Resizing

\* every input, every interleaving
Spec == Init /\ [][Next]_vars

\* the user browses: moves the highlight, opens and leaves version lists
SpecPreview == Init /\ [][Loading \/ Navigation \/ Previews]_vars

\* the user opens version lists and downloads artifacts
SpecDownload ==
  Init /\ [][Loading \/ Highlighting \/ Opening \/ Previews \/ Downloads]_vars

\* the user browses the packages and edits the platform selection
SpecPlatforms ==
  Init /\ [][Loading \/ Highlighting \/ PackagePreviews \/ PlatformEditing]_vars

\* the user edits the platform selection and leaves the first channel
SpecChannels ==
  Init /\ [][Loading \/ PackagePreviews \/ PlatformEditing \/ SwitchAway \/ ChannelLoading]_vars

\* the user opens version lists and resizes the terminal
SpecResize ==
  Init /\ [][Loading \/ Highlighting \/ Opening \/ Previews \/ Resizing]_vars

\* the user opens version lists, moves within them, and edits the platform
\* selection
SpecCommit ==
  Init /\ [][Loading \/ RowHighlighting \/ Opening \/ Returning \/ Previews \/ PlatformEditing]_vars

\* the user browses the packages, edits the platform selection and leaves the
\* editor with escape
SpecEditor ==
  Init /\ [][Loading \/ Highlighting \/ Escape \/ PackagePreviews \/ PlatformEditing]_vars

\* the user opens and leaves version lists, edits the platform selection and
\* leaves the first channel, without moving the highlight
SpecModes ==
  Init /\ [][Loading \/ Opening \/ Returning \/ PackagePreviews \/ PlatformEditing \/ SwitchAway \/ ChannelLoading]_vars

\* the user opens version lists, moves within them, leaves them with escape
\* and leaves the first channel
SpecSwitch ==
  Init /\ [][Loading \/ RowHighlighting \/ Opening \/ Escape \/ Previews \/ VersionPreviewQueried \/ SwitchAway \/ ChannelLoading]_vars

\* run_worker(exclusive=True) cancels the tasks of the group for good: the step
\* is none of a cancelled task
CancelledStay ==
  \A w \in BagToSet(workers) :
    w.cancelled => CopiesIn(w, workers') >= CopiesIn(w, workers)

\* the steps of the switch tasks that were not cancelled
LiveChannelStart == ChannelStart /\ CancelledStay
LiveChannelDiscovered == ChannelDiscovered /\ CancelledStay
LiveChannelNamed == ChannelNamed /\ CancelledStay
LiveChannelNamesFailed == ChannelNamesFailed /\ CancelledStay

LiveChannelLoading ==
  \/ LiveChannelStart
  \/ LiveChannelDiscovered
  \/ LiveChannelNamed
  \/ LiveChannelNamesFailed

\* the user switches between the channels at will, also while a switch loads;
\* a switch replaced by a later one is aborted at its await
SpecRace ==
  Init /\ [][ \/ Loading
              \/ PackagePreviews
              \/ \E ch \in Channels : ConfirmChannelEdit(ch)
              \/ LiveChannelLoading ]_vars

\* the user browses, filters the package list by typing, opens version lists
\* and the platform editor, and types there too
SpecFilter ==
  Init /\ [][Loading \/ Highlighting \/ Opening \/ Returning \/ PackagePreviews \/ KeyP \/ KeySpace \/ Filtering]_vars

\* the user filters the package list by typing, opens version lists and
\* leaves the first channel
SpecSearch ==
  Init /\ [][Loading \/ Opening \/ PackagePreviews \/ Filtering \/ SwitchAway \/ ChannelLoading]_vars

\* the user filters the package list, opens and leaves version lists, and
\* presses the keys that the filter and the channel editor take as text
SpecKeys ==
  Init /\ [][Loading \/ Opening \/ Returning \/ PackagePreviews \/ KeyF \/ KeySlash \/ KeyP \/ ChannelEditing]_vars

\* the user opens version lists, folds and unfolds their sections, resizes
\* the terminal and leaves the first channel; the previews of packages wait
SpecSections ==
  Init /\ [][Loading \/ RowHighlighting \/ Opening \/ Returning \/ VersionPreviewStart \/ Resizing \/ SwitchAway \/ ChannelLoading]_vars

\* the user edits the platform selection, with the key for all platforms or
\* the defaults, and leaves the first channel
SpecSelectAll ==
  Init /\ [][Loading \/ PackagePreviews \/ PlatformEditing \/ KeyA \/ SwitchAway \/ ChannelLoading]_vars

(***************************************************************************)
(* Functions taken on their own.  The frame holds the arguments of one     *)
(* call; the step of the call puts what it returns into the frame.  The    *)
(* controller stays as constructed.                                        *)
(***************************************************************************)
Frame(fn, args) == [fn |-> fn, args |-> args, ret |-> {}]
Returns(fn, value) ==
  /\ frame.fn = fn
  /\ frame.ret = {}
  /\ frame' = [frame EXCEPT !.ret = {value}]
  /\ UNCHANGED fields

\* the lists of at most n elements of S
Lists(S, n) == UNION {[1..k -> S] : k \in 0..n}

\* records of one package as a gateway may return them: artifacts of two
\* versions, build numbers, subdirs and file names; the older version is
\* served by both channels
ArtifactRecords ==
  { r \in { Rec(ch, "a", v, "h0", bn, sd, fn) :
              ch \in Channels, v \in {1, 2}, bn \in {0, 1},
              sd \in {"linux-64", "noarch"}, fn \in {"a-1.conda", "a-2.conda"} } :
      r.channel = "conda-forge" \/ r.version = 1 }

InitEntries ==
  /\ Constructed
  /\ selected_platform_names = {}
  /\ frame \in {Frame("_build_version_entries", [records |-> rs]) :
                  rs \in Lists(ArtifactRecords, MaxRecords)}

BuildVersionEntriesReturns ==
  Returns("_build_version_entries", BuildVersionEntries(frame.args.records))

SpecEntries == InitEntries /\ [][BuildVersionEntriesReturns]_vars

\* the characters queries and candidates are made of
Characters == {"a", "b", "B", " "}

InitScore ==
  /\ Constructed
  /\ selected_platform_names = {}
  /\ frame \in {Frame("fuzzy_score", [query |-> q, candidate |-> c]) :
                  q \in Lists(Characters, MaxQuery),
                  c \in Lists(Characters, MaxCandidate)}

FuzzyScoreReturns ==
  Returns("fuzzy_score", fuzzy_score(frame.args.query, frame.args.candidate))

SpecScore == InitScore /\ [][FuzzyScoreReturns]_vars

\* the names a channel may serve, for the filter
SearchNames == {"a", "b", "ab", "ba"}

\* _all_package_names is the sorted list fetch_package_names returned
InitFilter ==
  /\ Constructed
  /\ selected_platform_names = {}
  /\ frame \in {Frame("_filter_packages",
                      [filter_mode |-> f, search_query |-> q,
                       all_package_names |-> SortedNames(ns)]) :
                  f \in BOOLEAN, q \in Lists(Characters, MaxQuery),
                  ns \in SUBSET SearchNames}

\* what _filter_packages leaves in _visible_package_names
FilterPackagesReturns == Returns("_filter_packages", Matching(frame.args))

SpecMatching == InitFilter /\ [][FilterPackagesReturns]_vars

\* platform names a user may ask for and a channel may serve
KnownPlatforms == AllPlatforms \cup {"win-64"}

\* _ensure_available_platforms with the platforms already discovered
InitEnsure ==
  /\ Constructed
  /\ selected_platform_names = {}
  /\ frame \in {Frame("_ensure_available_platforms",
                      [selected_platform_names |-> sel,
                       available_platform_names |-> av]) :
                  sel \in SUBSET KnownPlatforms, av \in SUBSET KnownPlatforms}

\* what _ensure_available_platforms leaves in _selected_platform_names, or
\* the exception it raises
EnsureAvailablePlatformsReturns ==
  Returns("_ensure_available_platforms",
          IF frame.args.available_platform_names = {} THEN "RuntimeError"
          ELSE ReconcileSelection(frame.args).selected_platform_names)

SpecEnsure == InitEnsure /\ [][EnsureAvailablePlatformsReturns]_vars

(***************************************************************************)
(* The command line (src/pixi_browse/__main__.py).  What the process       *)
(* leaves: its exit code, what it wrote to stdout and stderr, and the TUI  *)
(* it constructed and ran, if it did.                                      *)
(***************************************************************************)
\* the values --platform is given
PlatformOptions == {"linux-64", "noarch", "bad-platform", "worse-platform"}

Exited(code, out, err, tui) ==
  [exit_code |-> code, stdout |-> out, stderr |-> err, tui |-> tui]

\* str(ParsePlatformError) of Platform(name)
ParsePlatformError(name) == [kind |-> "not-a-known-platform", name |-> name]

\* the list comprehension of run without the exception: the names Platform()
\* does not know are left out (a faulty variant)
RequestedPlatformsLenient(platform) ==
  [ok |-> TRUE, platforms |-> SelectSeq(platform, LAMBDA n : n \in KnownPlatforms)]

\* the try block of run: Platform(name) for each name in turn; the first
\* unknown name raises
RequestedPlatforms(platform) ==
  LET unknown == {i \in 1..Len(platform) : platform[i] \notin KnownPlatforms}
  IN IF unknown = {} THEN [ok |-> TRUE, platforms |-> platform]
     ELSE [ok |-> FALSE,
           exc |-> ParsePlatformError(platform[CHOOSE i \in unknown : \A j \in unknown : i <= j])]

\* cli(): the eager --version callback runs while the options are parsed,
\* before run is entered; platform is {} for None, {list} otherwise
Run(args) ==
  IF args.version
  THEN Exited(0, Msg("pixi-browse-version"), Msg("none"), {})
  ELSE IF args.platform = {}
  THEN Exited(0, Msg("none"), Msg("none"),
              {[default_channel |-> args.channel, default_platforms |-> {}]})
  ELSE LET requested == RequestedPlatforms(CHOOSE l \in args.platform : TRUE)
       IN IF ~requested.ok
          THEN Exited(1, Msg("none"), requested.exc, {})
          ELSE Exited(0, Msg("none"), Msg("none"),
                      {[default_channel |-> args.channel,
                        default_platforms |-> {requested.platforms}]})

InitRun ==
  /\ Constructed
  /\ selected_platform_names = {}
  /\ frame \in {Frame("run", [channel |-> ch, platform |-> pl, version |-> v]) :
                  ch \in Channels, v \in BOOLEAN,
                  pl \in {{}} \cup {{l} : l \in Lists(PlatformOptions, MaxPlatformOptions) \ {<<>>}}}

RunReturns == Returns("run", Run(frame.args))

SpecRun == InitRun /\ [][RunReturns]_vars

(***************************************************************************)
(* The rows of a version list, for the artifacts of one package over three *)
(* subdirs and any set of collapsed sections; beside it, the controller    *)
(* with the catalog.                                                       *)
(***************************************************************************)
SectionRecords ==
  { Rec("conda-forge", "a", v, "h0", 0, sd, "a-1.conda") :
      v \in {1, 2}, sd \in {"linux-64", "osx-64"} }
  \cup { Rec("conda-forge", "a", 1, "h0", 0, "noarch", "a-1.conda") }

InitRows ==
  /\ Constructed
  /\ frame \in {NoFrame}
       \cup { Frame("_render_version_options", [records |-> Listed(S), collapsed |-> C]) :
                S \in SUBSET SectionRecords, C \in SUBSET AllPlatforms }

\* _open_versions groups the records, sections are collapsed, and
\* _render_version_options lays out the rows
RenderVersionOptionsReturns ==
  LET grouped == GroupVersions(St, frame.args.records)
      s == [grouped EXCEPT !.collapsed_version_subdirs =
                             frame.args.collapsed \cap Range(grouped.version_subdirs)]
  IN Returns("_render_version_options",
             [entries |-> s.current_versions,
              collapsed |-> s.collapsed_version_subdirs,
              rows |-> RenderVersionOptions(s, FALSE).version_rows])

SpecRows ==
  InitRows /\ [][ \/ frame = NoFrame /\ (Loading \/ RowHighlighting \/ Opening \/ Returning \/ VersionPreviewStart \/ Resizing)
                  \/ RenderVersionOptionsReturns ]_vars

(***************************************************************************)
(* Properties of the preview streams.                                      *)
(***************************************************************************)
\* the step ends task w of the group and starts or cancels none
FetchEnds(group, w) ==
  /\ w \in BagToSet(workers)
  /\ w.group = group
  /\ workers' = workers (-) SetToBag({w})

\* C1: when a fetch of a preview stream ends, the detail pane and the stream's
\* last-applied key change only if the controller is in the stream's mode and
\* the fetch's key is the pending key; a stale completion changes neither.
C1_StaleCompletionsAreDiscarded ==
  [][ /\ \A w \in BagToSet(workers) :
           /\ FetchEnds("package-preview", w)
           /\ ~(mode = "packages" /\ pending_preview_package = w.pkg)
           => /\ pane' = pane
              /\ previewed_package' = previewed_package
      /\ \A w \in BagToSet(workers) :
           /\ FetchEnds("version-preview", w)
           /\ ~(/\ mode = "versions"
                /\ \E e \in w.entry :
                     pending_preview_version_key = VersionPreviewKey(w.pkg, e))
           => /\ pane' = pane
              /\ previewed_version_key' = previewed_version_key ]_vars

\* C1 happens: the package requested last is shown while the query of a
\* package requested before it, and never fetched, is still to return
C1_OlderFetchOutlivesNewer ==
  /\ mode = "packages"
  /\ pending_preview_package # NONE
  /\ previewed_package = pending_preview_package
  /\ pane.kind = "package" /\ pane.pkg = pending_preview_package
  /\ \E w \in BagToSet(workers) :
       /\ w.group = "package-preview" /\ w.pc = "query"
       /\ w.pkg # pending_preview_package
       /\ package_records_cache[w.pkg] = {}

\* browsing with a gateway that answers every query
SpecReliable ==
  Init /\ [][ \/ MountStart
              \/ MountDiscovered
              \/ MountNamed
              \/ Highlighting
              \/ SelectPackage
              \/ OpenVersionsQueried
              \/ Returning
              \/ PackagePreviewStart
              \/ PackagePreviewQueried
              \/ VersionPreviewStart
              \/ DropCancelled ]_vars

\* no handler is suspended and no task of the group is alive
Settled(group) ==
  /\ Running
  /\ handler = {}
  /\ \A w \in BagToSet(workers) : w.group # group

\* C2: once every fetch of the package-preview stream has returned and no
\* handler runs, the pane shows the rendering of the package requested last
\* (the pending package): no loading placeholder, no earlier package.  The
\* version-detail stream takes the same shortcut in
\* _request_selected_version_preview.
C2_SettledPaneShowsLastRequest ==
  ( /\ mode = "packages"
    /\ Settled("package-preview")
    /\ pending_preview_package # NONE )
  => pane = Text("package", pending_preview_package, NoKey, 0,
                 package_records_cache[pending_preview_package])

(***************************************************************************)
(* Properties of downloads.                                                *)
(***************************************************************************)
\* the download tasks alive
Downloading == {w \in BagToSet(workers) : w.group = "version-download"}

\* C3: at most one download is in flight, the guard is set while it is, and a
\* download request made while the guard is set starts no task, raises no
\* error and changes nothing, whether or not run_worker would have raised.
C3_SingleFlight ==
  /\ Cardinality(Downloading) <= 1
  /\ \A w \in Downloading : CopiesIn(w, workers) = 1
  /\ Downloading # {} => download_in_progress
  /\ download_in_progress =>
       \A raises \in BOOLEAN : RequestDownloadForHighlightedEntry(St, raises) = St

\* C3 happens: a download is in flight while an entry of the version list is
\* highlighted, so that a request would pass every other test
C3_RequestWhileDownloading ==
  /\ download_in_progress
  /\ Downloading # {}
  /\ mode = "versions"
  /\ selected_package # NONE
  /\ \E row \in HighlightedVersionRow(St) : row.kind = "entry" /\ row.entry # {}

\* the user leaves the first channel while a requested download is still to
\* take its first step, so that the task finds the record cache cleared
SwitchUnderDownload == At("version-download", "new") # {} /\ SwitchAway

\* downloads in one version list; every started download task is run, its
\* gateway lookup returns or raises, and its transfer thread ends (the
\* transfer has a timeout, DOWNLOAD_TIMEOUT_SECONDS)
SpecDownloadFair ==
  /\ Init
  /\ [][ \/ Loading
         \/ RowHighlighting
         \/ Opening
         \/ Previews
         \/ Downloads
         \/ DownloadLooked
         \/ DownloadLookupFailed
         \/ SwitchUnderDownload
         \/ ChannelLoading ]_vars
  /\ WF_vars(DownloadStart \/ DownloadLooked \/ DownloadLookupFailed
               \/ ThreadOpened \/ ThreadConnectFailed
               \/ ThreadCopied \/ ThreadCopyFailed
               \/ DownloadTransferred \/ DownloadTransferFailed)

\* with the guard clear, a request for a highlighted entry starts a download
\* task and sets the guard, and one whose run_worker raises leaves it clear
Accepting ==
  LET t == RequestDownloadForHighlightedEntry(St, FALSE)
      entry == /\ mode = "versions"
               /\ selected_package # NONE
               /\ \E row \in HighlightedVersionRow(St) :
                    row.kind = "entry" /\ row.entry # {}
  IN /\ ~download_in_progress
     /\ ~RequestDownloadForHighlightedEntry(St, TRUE).download_in_progress
     /\ entry => \/ t.overflow
                 \/ /\ t.download_in_progress
                    /\ \E w \in BagToSet(t.workers) :
                         w.group = "version-download" /\ w.pc = "new"

\* C4: a download that was started releases the guard in the end, whether the
\* transfer succeeds, the transfer fails or the record lookup fails, as long
\* as the application runs; a request whose run_worker raises leaves the guard
\* clear; and once the guard is clear a new request is accepted.
C4_GuardIsReleased == download_in_progress ~> (crashed \/ Accepting)

\* C4 happens: a download has failed, the guard is clear again and the
\* application runs
C4_ReleasedAfterFailure ==
  /\ notice = Msg("download-failed")
  /\ ~download_in_progress
  /\ Running
  /\ Downloading = {}

\* C5: a download writes to <file>.part only; the destination is created or
\* replaced only by the rename that follows a transfer that ran to its end,
\* and the rename leaves no .part file.
C5_DestinationOnlyByRename ==
  [][ \A f \in FileNames :
        fs'[<<f, "dest">>] # fs[<<f, "dest">>]
        => /\ fs[<<f, "part">>] = "complete"
           /\ fs'[<<f, "dest">>] = "complete"
           /\ fs'[<<f, "part">>] = "absent"
           /\ \E w \in Downloading : w.xfer = "done" /\ workers' = workers (-) SetToBag({w}) ]_vars

\* C5 happens: a download has succeeded; its file is there and its .part is not
C5_Downloaded ==
  /\ notice = Msg("downloaded-successfully")
  /\ \E f \in FileNames :
       fs[<<f, "dest">>] = "complete" /\ fs[<<f, "part">>] = "absent"

\* the step in which the download task w handles a transfer that raised
TransferFails(w) ==
  /\ w \in Downloading
  /\ w.pc = "transfer" /\ w.xfer = "failed"
  /\ workers' = workers (-) SetToBag({w})

\* C6 as the specification words it: after a failed transfer neither the
\* .part file nor the destination exists, and a download error is reported.
C6_NothingLeftAfterFailure ==
  [][ \A w \in BagToSet(workers) : TransferFails(w) =>
        \A e \in w.entry :
          /\ fs'[TemporaryDestination(e)] = "absent"
          /\ fs'[Destination(e)] = "absent"
          /\ notice' = Msg("download-failed") ]_vars

\* C6, amended: after a failed transfer the .part file does not exist, the
\* destination is as it was before (absent, or the file an earlier download
\* left), and a download error is reported.
C6_FailureLeavesDestinationAlone ==
  [][ \A w \in BagToSet(workers) : TransferFails(w) =>
        \A e \in w.entry :
          /\ fs'[TemporaryDestination(e)] = "absent"
          /\ fs'[Destination(e)] = fs[Destination(e)]
          /\ notice' = Msg("download-failed")
          /\ ~download_in_progress' ]_vars

\* C6 happens: a transfer has failed after its .part file was created, and
\* the file of an earlier download is still there
C6_FailedOverEarlierDownload ==
  /\ notice = Msg("download-failed")
  /\ Downloading = {}
  /\ \E f \in FileNames : fs[<<f, "dest">>] = "complete"
  /\ \A f \in FileNames : fs[<<f, "part">>] = "absent"

(***************************************************************************)
(* Properties of the record cache and the platform selection.              *)
(***************************************************************************)
\* C7: whenever no handler is suspended, every entry of the record cache was
\* fetched for the current channel and the committed platform set: a fetch
\* issued before a platform commit or a channel change inserts nothing after
\* the cache was cleared.
C7_CacheIsCurrent ==
  handler = {} =>
    \A pkg \in QueriedNames : \A tag \in package_records_cache[pkg] :
      tag = Tag(channel_name, selected_platform_names)

\* C8: once the refresh that follows a resize has run, the detail cache holds
\* no text rendered at another width than the viewport's: the resize clears
\* the detail cache in every mode and whatever row is highlighted.
C8_NoDetailsOfOldWidth ==
  resize_callbacks = 0 =>
    \A e \in version_details_cache : e.text.kind = "details" => e.text.w = width

\* C9 as the specification words it: in every reachable state the committed
\* platform selection is a non-empty set.
C9_CommittedNeverEmpty == selected_platform_names # {}

\* C9, amended: whenever the platforms of the channel are known (the list of
\* available platforms is non-empty), the committed selection is non-empty.
C9_CommittedNonEmptyOnceDiscovered ==
  available_platform_names # {} => selected_platform_names # {}

\* C9 happens: the second channel is loaded and the selection, reconciled with
\* what it serves, is non-empty
C9_ReconciledOnSecondChannel ==
  /\ channel_name = "bioconda"
  /\ available_platform_names = GwPlatforms("bioconda")
  /\ selected_platform_names # {}
  /\ selected_platform_names \subseteq available_platform_names
  /\ \A w \in BagToSet(workers) : w.group # "channel-selection"


\* C10: in platforms mode, toggling the only platform left in the draft leaves
\* the draft as it is and shows the warning; toggling any other platform adds
\* it to the draft or removes it from the draft, and the draft that results is
\* never empty.  Stated of every row the list shows, in every reachable state
\* of the editor.
C10_ToggleKeepsOnePlatform ==
  (mode = "platforms" /\ handler = {} /\ ~crashed) =>
    \A i \in 1..Cardinality(available_platform_names) :
      LET platform == SortedPlatforms(available_platform_names)[i]
          before == DraftOrSelected(St)
          t == TogglePlatformAtIndex(St, i)
          after == DraftOrSelected(t)
      IN /\ t.draft_selected_platform_names # {}
         /\ IF before = {platform}
            THEN after = before /\ t.status = Msg("at-least-one-platform")
            ELSE /\ after = IF platform \in before THEN before \ {platform}
                            ELSE before \cup {platform}
                 /\ after # {}

\* C10 happens: the warning is up after space on the only ticked platform, in
\* an editor that lists more than one
C10_LastPlatformRefused ==
  /\ mode = "platforms"
  /\ status = Msg("at-least-one-platform")
  /\ Cardinality(available_platform_names) > 1
  /\ \E p \in available_platform_names : draft_selected_platform_names = {{p}}
  /\ draft_selected_platform_names # {selected_platform_names}


(***************************************************************************)
(* Properties of the platform selection editor.                            *)
(***************************************************************************)
\* Enter can be pressed on the platform list
CanCommit ==
  mode = "platforms" /\ handler = {} /\ ~crashed /\ ~list_disabled /\ highlighted # 0

\* what _apply_platform_selection reads as the draft to commit
DraftToCommit == DraftOrSelected(St) \cap available_platform_names

\* C11: committing a draft equal to the committed platform set returns to
\* packages mode with no gateway call for platforms or package names, and
\* leaves the committed set, the package-name list and both caches as they
\* were.
C11_SameDraftCommitsNothing ==
  (CanCommit /\ DraftOrSelected(St) = selected_platform_names) =>
    LET t == ApplyPlatformSelectionBegin(St)
    IN /\ t.mode = "packages"
       /\ t.await = {}
       /\ t.selected_platform_names = selected_platform_names
       /\ t.all_package_names = all_package_names
       /\ t.package_records_cache = package_records_cache
       /\ t.version_details_cache = version_details_cache

\* C11 happens: Enter is about to commit a draft equal to the committed set,
\* with packages listed and something in both caches
C11_SameDraftWithFilledCaches ==
  /\ CanCommit
  /\ draft_selected_platform_names = {selected_platform_names}
  /\ all_package_names # <<>>
  /\ \E pkg \in PackageNames : package_records_cache[pkg] # {}
  /\ version_details_cache # {}
  /\ ApplyPlatformSelectionBegin(St).mode = "packages"


\* C12: committing a non-empty draft that differs from the committed platform
\* set makes the draft the committed set and empties the record cache and the
\* detail cache before the name listing is issued: the routine suspends on
\* that call with the new set committed and both caches empty.
C12_NewDraftClearsCaches ==
  (CanCommit /\ DraftOrSelected(St) # {}
             /\ DraftOrSelected(St) # selected_platform_names) =>
    LET t == ApplyPlatformSelectionBegin(St)
    IN /\ t.selected_platform_names = DraftOrSelected(St)
       /\ \A pkg \in QueriedNames : t.package_records_cache[pkg] = {}
       /\ t.version_details_cache = {}
       /\ t.await = {Call("names", channel_name, DraftOrSelected(St), NONE)}

\* C12 happens: Enter is about to commit a different draft while both caches
\* hold entries
C12_NewDraftWithFilledCaches ==
  /\ CanCommit
  /\ DraftOrSelected(St) \notin {{}, selected_platform_names}
  /\ \E pkg \in PackageNames : package_records_cache[pkg] # {}
  /\ version_details_cache # {}
  /\ ApplyPlatformSelectionBegin(St).await # {}


\* the step is the failure branch of a platform commit: the handler that
\* awaited the name listing is over and the committed set was put back
CommitFails(h) ==
  /\ h \in handler
  /\ h.op = "apply" /\ h.call # {}
  /\ handler' = {}
  /\ selected_platform_names' # selected_platform_names

\* C13: when the gateway fails while a platform commit is reloading, the
\* committed platform set is again the one committed before the commit, the
\* package-name list is the one loaded before the commit, an error message is
\* shown, and the controller is in packages mode.
C13_FailedCommitRollsBack ==
  [][\A h \in handler :
       CommitFails(h) =>
         /\ selected_platform_names' = h.prev
         /\ all_package_names' = all_package_names
         /\ mode' = "packages"
         /\ status'.kind = "failed-to-load-selected-platforms"]_vars


\* the step leaves the editor with no commit pending: escape, or Enter on a
\* draft equal to the committed set
LeavesEditor ==
  mode = "platforms" /\ handler = {} /\ mode' = "packages"

\* C14: escape in platforms mode discards the draft and returns to packages
\* mode with the highlight on the index saved when the editor was opened
\* (clamped to the list length); the committed platform set and the
\* package-name list stay as they were and neither platform discovery nor a
\* name listing is started.  The saved index is the highlight at the step that
\* opens the editor and does not change while the editor is open.
C14_EscapeRestoresPackages ==
  [][/\ (mode = "packages" /\ mode' = "platforms")
          => last_package_highlight' = highlighted
     /\ (mode = "platforms" /\ mode' = "platforms")
          => last_package_highlight' = last_package_highlight
     /\ LeavesEditor =>
          /\ draft_selected_platform_names' = {}
          /\ (visible_package_names' # <<>> /\ last_package_highlight # 0)
               => highlighted' = Min(last_package_highlight, Len(visible_package_names'))
          /\ selected_platform_names' = selected_platform_names
          /\ available_platform_names' = available_platform_names
          /\ all_package_names' = all_package_names
          /\ handler' = {}
          /\ \A w \in BagToSet(workers') : w.group # "channel-selection"]_vars

\* C14 happens: the editor was opened from the second package and left; the
\* highlight is back on the second package
C14_BackOnSecondPackage ==
  /\ mode = "packages" /\ handler = {}
  /\ last_package_highlight = 2
  /\ highlighted = 2
  /\ Len(visible_package_names) >= 2
  /\ pending_preview_package = visible_package_names[2]


(***************************************************************************)
(* Properties of the modes.                                                *)
(***************************************************************************)
ModeChanges ==
  { <<"packages", "versions">>, <<"versions", "packages">>,
    <<"packages", "platforms">>, <<"platforms", "packages">> }

\* C15: the mode starts as packages, and every step that changes the mode goes
\* from packages to versions, from versions to packages, from packages to
\* platforms or from platforms to packages: no step, of a handler or of a task
\* that loads, moves between versions and platforms.
C15_ModesPassThroughPackages ==
  /\ mode = "packages"
  /\ [][mode' # mode => <<mode, mode'>> \in ModeChanges]_vars

\* C15 happens: a channel load that started from a version list, and holds
\* that mode in its snapshot, is in flight while the platform editor is open
C15_EditorOverSnapshotOfVersions ==
  /\ mode = "platforms"
  /\ \E w \in BagToSet(workers) :
       /\ w.group = "channel-selection" /\ ~w.cancelled
       /\ \E snap \in w.snap : snap.mode = "versions"


(***************************************************************************)
(* Properties of the channel switch.                                       *)
(***************************************************************************)
\* the fields of the state C16 is about
LoadedChannel(s) ==
  [ channel_name |-> s.channel_name,
    all_package_names |-> s.all_package_names,
    available_platform_names |-> s.available_platform_names,
    selected_platform_names |-> s.selected_platform_names,
    package_records_cache |-> s.package_records_cache,
    version_details_cache |-> s.version_details_cache ]

\* the step starts the switch task w
SwitchStarts(w) ==
  /\ w \in At("channel-selection", "new")
  /\ w.ch # channel_name
  /\ w \notin BagToSet(workers')

\* the step ends the switch task w, which was loading, otherwise than with
\* the notification of success
SwitchFails(w) ==
  /\ w \in BagToSet(workers)
  /\ w.group = "channel-selection" /\ ~w.cancelled /\ w.snap # {}
  /\ \A w2 \in BagToSet(workers') :
       w2.group = "channel-selection" => w2 \in BagToSet(workers) /\ w2 # w
  /\ notice'.kind # "switched-to-channel"

\* C16: after a switch to a channel whose load fails, the channel name, the
\* package-name list, the available and the committed platform sets and both
\* caches are what they were before the switch, and an error notification is
\* shown.  The values before the switch are those of the state the switch
\* task starts in, which the task carries until it ends.
C16_FailedSwitchRestores ==
  [][/\ \A w \in BagToSet(workers) :
          SwitchStarts(w) =>
            \E w2 \in BagToSet(workers') :
              /\ w2.group = "channel-selection"
              /\ \E snap \in w2.snap : LoadedChannel(snap) = LoadedChannel(St)
     /\ \A w \in BagToSet(workers) :
          SwitchFails(w) =>
            /\ \A snap \in w.snap :
                 /\ channel_name' = snap.channel_name
                 /\ all_package_names' = snap.all_package_names
                 /\ available_platform_names' = snap.available_platform_names
                 /\ selected_platform_names' = snap.selected_platform_names
                 /\ package_records_cache' = snap.package_records_cache
                 /\ version_details_cache' = snap.version_details_cache
            /\ notice'.kind = "failed-to-load-channel"]_vars

\* C16 happens: the switch failed and the first channel is back, with its
\* packages, its platforms and entries in both caches
C16_FirstChannelBack ==
  /\ notice.kind = "failed-to-load-channel"
  /\ channel_name = "conda-forge"
  /\ all_package_names # <<>>
  /\ selected_platform_names # {}
  /\ available_platform_names = GwPlatforms("conda-forge")
  /\ \E pkg \in PackageNames : package_records_cache[pkg] # {}
  /\ version_details_cache # {}
  /\ \A w \in BagToSet(workers) : w.group # "channel-selection"


(***************************************************************************)
(* Properties of failures.                                                 *)
(***************************************************************************)
\* C17: no gateway failure ends the controller: whatever call raised, in
\* whatever mode and operation, opening a package's versions included, the
\* controller is in one of its three modes and goes on handling input.
C17_NoGatewayFailureCrashes ==
  /\ ~crashed
  /\ mode \in {"packages", "versions", "platforms"}


\* the switch tasks that had started loading when a later switch replaced them
Superseded ==
  {w \in BagToSet(workers) : w.group = "channel-selection" /\ w.cancelled /\ w.snap # {}}

\* the step ends w, the switch issued last, and leaves no switch to run
LastSwitchEnds(w) ==
  /\ w \in BagToSet(workers)
  /\ w.group = "channel-selection" /\ ~w.cancelled
  /\ \A w2 \in BagToSet(workers') :
       (w2.group = "channel-selection" /\ ~w2.cancelled) => w2 \in BagToSet(workers) /\ w2 # w

\* C18: when a second switch is issued while an earlier one is loading, the
\* switch issued last determines the final channel name, platform sets and
\* package list: when its task ends, either its channel is the current one,
\* loaded (platforms discovered, a selection committed, its names listed), or
\* the failure of its load is notified.
C18_LastSwitchDecides ==
  [][\A w \in BagToSet(workers) :
       (Superseded # {} /\ LastSwitchEnds(w)) =>
         \/ /\ channel_name' = w.ch
            /\ available_platform_names' = GwPlatforms(w.ch)
            /\ selected_platform_names' # {}
            /\ selected_platform_names' \subseteq available_platform_names'
            /\ all_package_names' = GwNames(w.ch, selected_platform_names')
         \/ notice'.kind = "failed-to-load-channel"]_vars


(***************************************************************************)
(* Properties of the filter.                                               *)
(***************************************************************************)
\* the handler leaves the filter and the visible package list as they are
FilterUntouched(t) ==
  /\ t.search_query = search_query
  /\ t.filter_mode = filter_mode
  /\ t.visible_package_names = visible_package_names

\* C19: entering versions or platforms mode leaves the filter query and the
\* filter-mode flag unchanged, and while the mode is not packages no typed
\* key (a printable character, space, backspace, f, /) changes the query or
\* the visible package list.
C19_FilterInertOutsidePackages ==
  /\ [][(mode = "packages" /\ mode' # "packages") =>
          /\ search_query' = search_query
          /\ filter_mode' = filter_mode]_vars
  /\ [](mode # "packages" =>
          /\ \A key \in TypedKeys : FilterUntouched(OnKey(St, key))
          /\ FilterUntouched(ActionFilterKey(St, "f"))
          /\ FilterUntouched(ActionFilterKey(St, "/")))

\* C19 happens: a version list is open over a package list that a typed
\* query had narrowed
C19_VersionsOverFilteredList ==
  /\ mode = "versions" /\ handler = {}
  /\ filter_mode
  /\ search_query # <<>>
  /\ Len(visible_package_names) < Len(all_package_names)


(***************************************************************************)
(* Properties of the version list.                                         *)
(***************************************************************************)
\* the rows without the entry rows of the section
WithoutEntriesOf(rows, subdir) ==
  SelectSeq(rows, LAMBDA r : ~(r.kind = "entry" /\ r.subdir = subdir))

\* C20: collapsing a section removes exactly that section's entry rows from
\* the row list, the grouping by subdir and the rows of the other sections
\* stay as they are, and toggling the same section a second time gives back
\* the row list from before the first toggle, same rows in the same order.
\* Stated of every section of every version list that is open.
C20_CollapseRemovesAndRestores ==
  (mode = "versions" /\ handler = {} /\ ~crashed) =>
    \A subdir \in Range(version_subdirs) :
      LET t == ToggleVersionSection(St, subdir)
          u == ToggleVersionSection(t, subdir)
      IN /\ subdir \notin collapsed_version_subdirs =>
              /\ t.version_rows = WithoutEntriesOf(version_rows, subdir)
              /\ Len(t.version_rows) < Len(version_rows)
         /\ t.current_versions = current_versions
         /\ t.version_subdirs = version_subdirs
         /\ \A other \in Range(version_subdirs) :
              VersionsBySubdir(t, other) = VersionsBySubdir(St, other)
         /\ \A other \in Range(version_subdirs) \ {subdir} :
              SelectSeq(t.version_rows, LAMBDA r : r.subdir = other)
                = SelectSeq(version_rows, LAMBDA r : r.subdir = other)
         /\ u.version_rows = version_rows
         /\ u.collapsed_version_subdirs = collapsed_version_subdirs

\* C20 happens: one section is collapsed, with the highlight on its row, and
\* another section shows its entries
C20_OneSectionCollapsed ==
  /\ mode = "versions" /\ handler = {}
  /\ \E subdir \in collapsed_version_subdirs :
       /\ highlighted \in 1..Len(version_rows)
       /\ version_rows[highlighted] = VersionRow("section", subdir, {})
       /\ VersionsBySubdir(St, subdir) # <<>>
       /\ \A r \in Range(version_rows) : ~(r.kind = "entry" /\ r.subdir = subdir)
       /\ \E r \in Range(version_rows) : r.kind = "entry" /\ r.subdir # subdir

(***************************************************************************)
(* Properties of the artifact list.                                        *)
(***************************************************************************)
\* the five fields an artifact is told apart by
Identity(x) == <<x.version, x.build, x.build_number, x.subdir, x.file_name>>

BuiltEntries == CHOOSE es \in frame.ret : TRUE
EntriesBuilt == frame.fn = "_build_version_entries" /\ frame.ret # {}

\* C21: the artifact list built from a list of records holds exactly one
\* artifact per distinct (version, build, build number, subdir, file name) of
\* the records: records equal on the five fields give one artifact, records
\* that differ in the file name only give one artifact each.
C21_OneArtifactPerIdentity ==
  EntriesBuilt =>
    LET records == frame.args.records
        ids == {Identity(r) : r \in Range(records)}
    IN /\ {Identity(e) : e \in Range(BuiltEntries)} = ids
       /\ Len(BuiltEntries) = Cardinality(ids)
       /\ \A i, j \in 1..Len(BuiltEntries) :
            Identity(BuiltEntries[i]) = Identity(BuiltEntries[j]) => i = j

\* three records: two alike but for the channel, the third differing from
\* them in the file name only; two artifacts are built
C21_TwinsAndFileNames ==
  /\ EntriesBuilt
  /\ Len(frame.args.records) = 3
  /\ LET r == frame.args.records
     IN /\ Identity(r[1]) = Identity(r[2]) /\ r[1] # r[2]
        /\ r[3].file_name # r[1].file_name
        /\ [r[3] EXCEPT !.file_name = r[1].file_name] = r[1]
  /\ Len(BuiltEntries) = 2

\* the order of the claim: (version, build string, subdir, build number, file
\* name), compared from the left
Below(a, b) ==
  \/ a.version < b.version
  \/ a.version = b.version /\ StrRank(a.build) < StrRank(b.build)
  \/ a.version = b.version /\ a.build = b.build /\ StrRank(a.subdir) < StrRank(b.subdir)
  \/ a.version = b.version /\ a.build = b.build /\ a.subdir = b.subdir
       /\ a.build_number < b.build_number
  \/ a.version = b.version /\ a.build = b.build /\ a.subdir = b.subdir
       /\ a.build_number = b.build_number
       /\ StrRank(a.file_name) < StrRank(b.file_name)

\* the list with its first two elements exchanged, and with its first moved last
Exchanged(l) == IF Len(l) < 2 THEN l ELSE <<l[2], l[1]>> \o SubSeq(l, 3, Len(l))
Rotated(l) == IF l = <<>> THEN l ELSE Append(Tail(l), Head(l))

Scored == frame.fn = "fuzzy_score" /\ frame.ret # {}
\* what fuzzy_score returned: {} is None
Score == CHOOSE sc \in frame.ret : TRUE

\* two characters alike but for their case
SameLetter(x, y) == x = y \/ {x, y} = {"b", "B"}

\* q is a subsequence of c, case apart
IsSubsequence(q, c) ==
  \E f \in [1..Len(q) -> 1..Len(c)] :
    /\ \A i \in 1..Len(q) : SameLetter(q[i], c[f[i]])
    /\ \A i, j \in 1..Len(q) : i < j => f[i] < f[j]

\* q without the spaces in front of its first and behind its last other character
Core(q) ==
  LET at == {i \in 1..Len(q) : q[i] # " "}
  IN IF at = {} THEN <<>>
     ELSE SubSeq(q, CHOOSE i \in at : \A j \in at : i <= j,
                    CHOOSE i \in at : \A j \in at : j <= i)

\* C23, as stated: for every non-empty query, spaces included, the score is
\* none exactly when the query is not a subsequence of the candidate.
C23_NoneIffNotSubsequence ==
  Scored /\ frame.args.query # <<>> =>
    (Score = {} <=> ~IsSubsequence(frame.args.query, frame.args.candidate))

\* C23, amended: the query counts without its leading and trailing spaces;
\* if nothing is left the score is 0, otherwise the score is none exactly
\* when what is left is not a subsequence of the candidate, case apart.
C23_NoneIffCoreNotSubsequence ==
  Scored =>
    LET q == Core(frame.args.query)
    IN IF q = <<>> THEN Score = {0}
       ELSE Score = {} <=> ~IsSubsequence(q, frame.args.candidate)

\* a query with a space in front that is no subsequence of the candidate as
\* typed, and is scored
C23_ScoredDespiteSpace ==
  /\ Scored
  /\ Len(frame.args.query) = 2
  /\ frame.args.query[1] = " "
  /\ frame.args.query[2] = "B"
  /\ ~IsSubsequence(frame.args.query, frame.args.candidate)
  /\ Score # {}

(***************************************************************************)
(* Properties of the filtered package list.                                *)
(***************************************************************************)
Filtered == frame.fn = "_filter_packages" /\ frame.ret # {}
Visible == CHOOSE l \in frame.ret : TRUE
ScoreOf(name) == fuzzy_score(frame.args.search_query, Spelling(name))
ScoreValue(name) == CHOOSE sc \in ScoreOf(name) : TRUE

\* C24: with filter mode on and a non-empty query the visible list holds
\* exactly the names whose score is not none, each once, by score descending
\* and by name ascending among equal scores; with filter mode off or an empty
\* query it is the full list in its loaded order.
C24_VisibleIsRankedMatches ==
  Filtered =>
    IF frame.args.filter_mode /\ frame.args.search_query # <<>>
    THEN /\ Range(Visible) = {n \in Range(frame.args.all_package_names) : ScoreOf(n) # {}}
         /\ \A i, j \in 1..Len(Visible) :
              i < j => \/ ScoreValue(Visible[i]) > ScoreValue(Visible[j])
                       \/ /\ ScoreValue(Visible[i]) = ScoreValue(Visible[j])
                          /\ StrRank(Visible[i]) < StrRank(Visible[j])
    ELSE Visible = frame.args.all_package_names

\* "b" typed over a, ab, ba: a is left out, ba comes before ab
C24_RankedAgainstNameOrder ==
  /\ Filtered
  /\ frame.args.filter_mode
  /\ frame.args.search_query = <<"b">>
  /\ frame.args.all_package_names = <<"a", "ab", "ba">>
  /\ Visible = <<"ba", "ab">>

(***************************************************************************)
(* Properties of the platform reconciliation.                              *)
(***************************************************************************)
Ensured == frame.fn = "_ensure_available_platforms" /\ frame.ret # {}
Reconciled == CHOOSE x \in frame.ret : TRUE

DownloadTasks(tasks) ==
  [w \in {x \in BagToSet(tasks) : x.group = "version-download"} |-> CopiesIn(w, tasks)]

\* a step of a download: a request, the task starting, its lookup, the
\* transfer thread, its completion
DownloadStep ==
  \/ DownloadTasks(workers') # DownloadTasks(workers)
  \/ download_in_progress' # download_in_progress
  \/ fs' # fs
  \/ /\ notice' # notice
     /\ notice' \in {Msg("select-a-version-entry"), Msg("download-failed"),
                     Msg("downloaded-successfully")}

\* C26: no step of a download changes the mode, the selected package, the
\* version rows, the collapse set, the pending or last-applied preview keys,
\* or the platform sets.
C26_DownloadLeavesNavigation ==
  [][DownloadStep =>
       UNCHANGED << mode, selected_package, version_rows, collapsed_version_subdirs,
                    pending_preview_package, previewed_package,
                    pending_preview_version_key, previewed_version_key,
                    selected_platform_names, draft_selected_platform_names,
                    available_platform_names, platforms >>]_vars

\* a transfer is under way, its .part file written, while a version-detail
\* task is pending
C26_DownloadBesideDetailFetch ==
  /\ mode = "versions"
  /\ \E d \in At("version-download", "transfer") :
       /\ d.xfer = "open"
       /\ \E p \in BagToSet(workers) :
            /\ p.group = "version-preview"
            /\ ~p.cancelled

(***************************************************************************)
(* Properties of the command line.                                         *)
(***************************************************************************)
Ran == frame.fn = "run" /\ frame.ret # {}
Outcome == CHOOSE x \in frame.ret : TRUE
\* the values given with --platform
PlatformsGiven == IF frame.args.platform = {} THEN <<>> ELSE CHOOSE l \in frame.args.platform : TRUE
UnknownGiven == {n \in Range(PlatformsGiven) : n \notin KnownPlatforms}

\* C27, as stated: whenever a --platform value is unknown the exit code is 1,
\* an unknown name is reported and no TUI is started; whenever --version is
\* given the version is printed, the exit code is 0 and no TUI is started.
C27_BadPlatformExitsOne ==
  Ran =>
    /\ UnknownGiven # {} =>
         /\ Outcome.exit_code = 1
         /\ \E n \in UnknownGiven : Outcome.stderr = [kind |-> "not-a-known-platform", name |-> n]
         /\ Outcome.tui = {}
    /\ frame.args.version =>
         /\ Outcome.exit_code = 0
         /\ Outcome.stdout = Msg("pixi-browse-version")
         /\ Outcome.tui = {}

\* C27, amended: --version comes first: with it the version is printed, the
\* exit code is 0 and no TUI is started, whatever --platform says; without
\* it, an unknown --platform value gives exit code 1, the first unknown name
\* on stderr and no TUI.
C27_VersionFirstThenBadPlatform ==
  Ran =>
    IF frame.args.version
    THEN /\ Outcome.exit_code = 0
         /\ Outcome.stdout = Msg("pixi-browse-version")
         /\ Outcome.tui = {}
    ELSE UnknownGiven # {} =>
         /\ Outcome.exit_code = 1
         /\ \E i \in 1..Len(PlatformsGiven) :
              /\ PlatformsGiven[i] \in UnknownGiven
              /\ \A j \in 1..(i - 1) : PlatformsGiven[j] \notin UnknownGiven
              /\ Outcome.stderr = [kind |-> "not-a-known-platform", name |-> PlatformsGiven[i]]
         /\ Outcome.tui = {}

\* -p linux-64 -p bad-platform: exit code 1, bad-platform named, no TUI
C27_SecondPlatformUnknown ==
  /\ Ran
  /\ ~frame.args.version
  /\ PlatformsGiven = <<"linux-64", "bad-platform">>
  /\ Outcome.exit_code = 1
  /\ Outcome.stderr.name = "bad-platform"
  /\ Outcome.tui = {}

(***************************************************************************)
(* Properties of the last-applied key against the pane.                    *)
(***************************************************************************)
\* the preview key of the highlighted entry row of the version list, if the
\* highlight is on one
HighlightedEntryKey ==
  IF mode = "versions" /\ selected_package # NONE /\ highlighted \in 1..Len(version_rows)
  THEN {VersionPreviewKey(selected_package, e) : e \in version_rows[highlighted].entry}
  ELSE {}

\* the highlighted package of the packages list, if there is one
HighlightedPackage ==
  IF mode = "packages" /\ highlighted \in 1..Len(visible_package_names)
  THEN {visible_package_names[highlighted]}
  ELSE {}

\* C28: while the last-applied key of a stream is the key of the highlighted
\* item, the pane shows what was rendered for that key: not a section or
\* back-row text, nor the loading placeholder of another key.
C28_AppliedKeyIsDisplayed ==
  ~crashed /\ handler = {} =>
    /\ \A k \in HighlightedEntryKey :
         previewed_version_key = k =>
           \/ pane.kind = "details" /\ pane.key = k
           \/ pane = Msg("no-matching-record")
    /\ \A n \in HighlightedPackage :
         previewed_package = n => pane.kind = "package" /\ pane.pkg = n

(***************************************************************************)
(* Properties of failed preview fetches.                                   *)
(***************************************************************************)
\* the record query of a preview task that was not superseded raises: the
\* task ends and nothing was put into the record cache
PreviewFetchFails ==
  \E w \in At("package-preview", "query") \cup At("version-preview", "query") :
    /\ ~w.cancelled
    /\ package_records_cache[w.pkg] = {}
    /\ package_records_cache' = package_records_cache
    /\ workers' = workers (-) SetToBag({w})

\* C29: when a package-preview or version-detail fetch fails with a gateway
\* error, a message is shown: the status line, a notification or the pane
\* changes, and the pane does not stay on its loading placeholder.
C29_FailedFetchIsReported ==
  [][PreviewFetchFails =>
       \/ status' # status
       \/ notice' # notice
       \/ pane' # pane]_vars

(***************************************************************************)
(* Properties of the snapshot after a failed channel switch.               *)
(***************************************************************************)
\* C30: after a failed channel switch every field of the snapshot taken
\* before the switch has its value of before the switch, the mode, the
\* selected package and the version list included.
C30_FailedSwitchRestoresSnapshot ==
  [][\A w \in BagToSet(workers) :
       SwitchFails(w) => \A snap \in w.snap : Snapshot(St)' = snap]_vars

\* no name listing of on_mount, of a platform commit or of a channel switch
\* is under way
NoLoadInFlight ==
  /\ handler = {}
  /\ \A w \in BagToSet(workers) : w.group # "channel-selection"

\* C31: in packages mode, with a channel loaded and no load in flight, the
\* visible package list is the filter of the full list under the current
\* filter flag and query, after every operation, a successful channel switch
\* started from versions mode while a filter was active included.
C31_VisibleIsFiltered ==
  (Running /\ mode = "packages" /\ all_package_names # <<>> /\ NoLoadInFlight) =>
    visible_package_names = Matching(St)

\* the keys bound to actions that the filter and the channel editor take as
\* text (BINDINGS: f, slash, p, c, q)
TextKeys == {"c", "p", "q", "f", "/"}

\* the controller after the bound action of the key
Pressed(char) ==
  CASE char = "c" -> ActionChannelKeyC(St)
    [] char = "p" -> ActionPlatformKeyP(St)
    [] char = "q" -> ActionQuitOrTypeQ(St)
    [] OTHER -> ActionFilterKey(St, char)

\* C38: while the filter is active in packages mode, c, p, q, f and / are
\* appended to the query and neither change the mode, start channel
\* editing nor quit; while channel editing is active the same keys are
\* appended to the channel draft instead, and nothing else changes; c
\* pressed otherwise starts channel editing with an empty draft.
C38_TextKeysAreTyped ==
  PumpIdle =>
    /\ \A char \in TextKeys :
         /\ (channel_edit_mode /\ Len(channel_draft) < MaxQuery) =>
              Pressed(char) = [St EXCEPT !.channel_draft = Append(@, char)]
         /\ (~channel_edit_mode /\ mode = "packages" /\ filter_mode
               /\ Len(search_query) < MaxQuery) =>
              /\ Pressed(char).search_query = Append(search_query, char)
              /\ Pressed(char).mode = mode
              /\ Pressed(char).filter_mode
              /\ ~Pressed(char).channel_edit_mode
              /\ Pressed(char).channel_draft = channel_draft
              /\ ~Pressed(char).exited
    /\ (~channel_edit_mode /\ ~(mode = "packages" /\ filter_mode)) =>
         Pressed("c") = [St EXCEPT !.channel_edit_mode = TRUE, !.channel_draft = <<>>]

\* with the filter on, a version list was opened, c started a channel edit
\* and c and q were typed into its draft
C38_TypedIntoDraft ==
  /\ Running /\ channel_edit_mode /\ filter_mode
  /\ channel_draft = <<"c", "q">>

\* one section went into the collapsed set or left it, within the version
\* list of one package
SectionToggled ==
  /\ mode = "versions" /\ mode' = "versions"
  /\ selected_package' = selected_package
  /\ \E subdir \in Range(version_subdirs) :
       \/ subdir \notin collapsed_version_subdirs
          /\ collapsed_version_subdirs' = collapsed_version_subdirs \cup {subdir}
       \/ subdir \in collapsed_version_subdirs
          /\ collapsed_version_subdirs' = collapsed_version_subdirs \ {subdir}

\* C32: the set of collapsed sections is empty right after a package's
\* versions are opened and after the return to packages mode; a re-render of
\* the same version list leaves it as it is; it changes only by the toggle
\* of a section (and by the two resets).
C32_CollapsedSetChangesByToggle ==
  [][/\ (mode # "versions" /\ mode' = "versions") => collapsed_version_subdirs' = {}
     /\ (mode # "packages" /\ mode' = "packages") => collapsed_version_subdirs' = {}
     /\ collapsed_version_subdirs' # collapsed_version_subdirs =>
          \/ SectionToggled
          \/ collapsed_version_subdirs' = {} /\ mode' # mode]_vars

\* a section is collapsed and the list was shown anew at another width
C32_SectionCollapsed ==
  /\ mode = "versions" /\ collapsed_version_subdirs # {}
  /\ width # 1 /\ resize_callbacks = 0

\* the rows are laid out as stated for the artifact list and the collapsed
\* sections
RowsAsStated(rows, entries, collapsed) ==
  LET sections == {i \in 1..Len(rows) : rows[i].kind = "section"}
      ends(i) == CHOOSE j \in (sections \cup {Len(rows) + 1}) :
                   j > i /\ \A k \in sections : k > i => j <= k
      of(sd) == SelectSeq(entries, LAMBDA e : e.subdir = sd)
  IN /\ Len(rows) >= 1 /\ rows[1].kind = "back"
     /\ IF entries = <<>>
        THEN Len(rows) = 2 /\ rows[2].kind = "empty"
        ELSE /\ \A i \in 2..Len(rows) : rows[i].kind \in {"section", "entry"}
             /\ 2 \in sections
             /\ {rows[i].subdir : i \in sections} = {e.subdir : e \in Range(entries)}
             /\ \A i, j \in sections :
                  i < j => /\ rows[i].subdir # "noarch"
                           /\ \/ rows[j].subdir = "noarch"
                              \/ StrRank(rows[i].subdir) < StrRank(rows[j].subdir)
             /\ \A i \in sections :
                  LET sd == rows[i].subdir
                      block == SubSeq(rows, i + 1, ends(i) - 1)
                  IN IF sd \in collapsed THEN block = <<>>
                     ELSE /\ Len(block) = Len(of(sd))
                          /\ \A k \in 1..Len(block) :
                               /\ block[k].kind = "entry"
                               /\ block[k].subdir = sd
                               /\ block[k].entry = {of(sd)[k]}

\* C33: in versions mode the row list is one back row, then one empty row if
\* the package has no artifacts, otherwise for each subdir in alphabetical
\* order with noarch last a section row followed, unless that subdir is
\* collapsed, by that subdir's artifacts in the order of the artifact list;
\* every entry row's subdir is that of the nearest section row before it.
C33_RowsAreSections ==
  /\ (Running /\ mode = "versions") =>
       RowsAsStated(version_rows, current_versions, collapsed_version_subdirs)
  /\ \A r \in frame.ret :
       frame.fn = "_render_version_options" =>
         RowsAsStated(r.rows, r.entries, r.collapsed)

\* rows were laid out for artifacts of all three subdirs, two of them in
\* osx-64, with the section of linux-64 collapsed
C33_ThreeSections ==
  \E r \in frame.ret :
    /\ frame.fn = "_render_version_options"
    /\ {e.subdir : e \in Range(r.entries)} = AllPlatforms
    /\ Len(SelectSeq(r.entries, LAMBDA e : e.subdir = "osx-64")) = 2
    /\ r.collapsed = {"linux-64"}

\* C34: in platforms mode with at least one available platform, the key "a"
\* sets the draft to the recommended defaults when the draft is the full
\* available set and to the full available set otherwise; the result is not
\* empty and the committed selection is unchanged.
C34_AllOrDefaults ==
  (PumpIdle /\ ~channel_edit_mode /\ mode = "platforms"
     /\ available_platform_names # {}) =>
    LET t == OnKeyA(St)
        draft == CHOOSE d \in t.draft_selected_platform_names : TRUE
    IN /\ t.draft_selected_platform_names # {}
       /\ \A d \in draft_selected_platform_names :
            draft = IF d = available_platform_names
                    THEN DefaultPlatformSelection(St)
                    ELSE available_platform_names
       /\ draft # {}
       /\ t.selected_platform_names = selected_platform_names
       /\ t.mode = "platforms"

\* the key was pressed on a draft of every platform: the draft is the
\* defaults, fewer than what is available and other than the committed
\* selection
C34_DefaultsChosen ==
  /\ PumpIdle /\ mode = "platforms" /\ available_platform_names # {}
  /\ draft_selected_platform_names = {DefaultPlatformSelection(St)}
  /\ DefaultPlatformSelection(St) # available_platform_names
  /\ selected_platform_names # DefaultPlatformSelection(St)

\* C35: whenever the mode is platforms and a draft exists, the draft is a
\* non-empty subset of the available platforms, however the editor was
\* reached: also when it is opened after a failed initial load or while a
\* channel switch is still loading.
C35_DraftIsAvailable ==
  (Running /\ mode = "platforms") =>
    \A draft \in draft_selected_platform_names :
      draft # {} /\ draft \subseteq available_platform_names

FreshCompletion(key) ==
  /\ mode = "versions"
  /\ pending_preview_version_key = key
  /\ \E w \in BagToSet(workers) :
       /\ w.group = "version-preview"
       /\ key = VersionPreviewKey(w.pkg, CHOOSE e \in w.entry : TRUE)
       /\ CopiesIn(w, workers') < CopiesIn(w, workers)

\* the step ends a channel switch that writes back the cache of its snapshot
SnapshotRestored(entry) ==
  \E w \in BagToSet(workers) :
    /\ w.group = "channel-selection"
    /\ CopiesIn(w, workers') < CopiesIn(w, workers)
    /\ \E snapshot \in w.snap : entry \in snapshot.version_details_cache

\* C37 as the specification words it: an entry is added to the detail cache,
\* or changed, only by a version-detail completion that passed the staleness
\* test (the mode is versions and its key is the pending key), and under
\* that completion's own key.
C37_CachedByCompletionAlone ==
  [][\A entry \in version_details_cache' \ version_details_cache :
       FreshCompletion(entry.key)]_vars

\* C37, amended: an entry is added to the detail cache, or changed, only by
\* a version-detail completion that passed the staleness test, under that
\* completion's own key, or by a failed channel switch that puts back the
\* entries of its snapshot; a discarded completion adds and changes nothing.
C37_CachedByFreshCompletion ==
  [][\A entry \in version_details_cache' \ version_details_cache :
       FreshCompletion(entry.key) \/ SnapshotRestored(entry)]_vars

\* the details of one artifact are cached, and the fetch for another waits
\* while the controller is back in packages mode: its completion will be
\* discarded
C37_CompletionToDiscard ==
  /\ Running /\ mode = "packages"
  /\ version_details_cache # {}
  /\ \E w \in BagToSet(workers) :
       /\ w.group = "version-preview" /\ ~w.cancelled
       /\ \A e \in version_details_cache :
            e.key # VersionPreviewKey(w.pkg, CHOOSE x \in w.entry : TRUE)

\* the places of c that the characters of q are matched at: the embedding of
\* q in c, case apart, that takes every character as far left as any does
Matched(q, c) ==
  LET embeddings == {f \in [1..Len(q) -> 1..Len(c)] :
                       /\ \A i \in 1..Len(q) : SameLetter(q[i], c[f[i]])
                       /\ \A i, j \in 1..Len(q) : i < j => f[i] < f[j]}
  IN CHOOSE f \in embeddings : \A g \in embeddings : \A i \in 1..Len(q) : f[i] <= g[i]

\* the score as stated, for a non-empty q that is a subsequence of c
StatedScore(q, c) ==
  LET f == Matched(q, c)
      runs == {k \in 1..Len(q) :
                 \E i \in 1..(Len(q) - k + 1) :
                   \A j \in 0..(k - 1) : f[i + j] = f[i] + j}
      longest == CHOOSE k \in runs : \A l \in runs : l <= k
      gaps == f[Len(q)] - f[1] - (Len(q) - 1)
      starts == /\ Len(q) <= Len(c)
                /\ \A i \in 1..Len(q) : SameLetter(q[i], c[i])
  IN (IF starts THEN 120 ELSE 0) + 20 * longest - 2 * gaps - (Len(c) - Len(q))

====
